---- MODULE Spec2Model ----
(***************************************************************************)
(* Model of the Prism certificate-transparency browser extension:          *)
(* the proof verifiers (proof_validation.ts), the codecs (conversion.ts,   *)
(* prism_serialization.ts, ct_parsing.ts), the verification store          *)
(* (verification_store.ts) and the onHeadersReceived handler               *)
(* (background.ts).                                                        *)
(*                                                                         *)
(* Byte arrays are symbolic: a Uint8Array is a sequence of chunks.  A      *)
(* chunk is a run of literal bytes ("raw"), a slice lo..hi of the 32-byte  *)
(* SHA-256 digest of a preimage ("sha"), or a slice of some other opaque   *)
(* byte string that is named by its origin ("utf8", "tbs", "spki", "mis"). *)
(* Two arrays are equal iff their normalised chunk sequences are equal:    *)
(* SHA-256 is treated as collision-free and its output bytes as generic.   *)
(* Every chunk, string item and name is a record with the same five fields *)
(* t, v, p, lo, hi so that any two of them can be compared.                *)
(***************************************************************************)
EXTENDS Integers, Sequences, FiniteSets, TLC

VARIABLES
    shaBits,                \* the leading bits of SHA-256 digests, by preimage
    verificationsByDomain,  \* DomainVerificationStore.verificationsByDomain
    queue,                  \* DomainVerificationStore.queue: operations not yet run
    applied,                \* history: the store operations run so far, in order
    ctLogStore,             \* CtLogStore.instance: "none", "ready" or "failed"
    accountResp,            \* the commitment service's answers to /get-account
    commitmentResp,         \* its answer to /get-current-commitment
    proofResp,              \* the log servers' answers to /ct/v1/get-proof-by-hash
    asnEmptyParse,          \* what the ASN.1 library does with an empty buffer,
                            \* "unknown" until it is first given one
    committed,              \* what the commitment service's tree holds for each log
    run,                    \* the invocations of the onHeadersReceived listener
    fn                      \* a call of a verifier: its arguments, then its result

vars == << shaBits, verificationsByDomain, queue, applied, ctLogStore, accountResp,
           commitmentResp, proofResp, asnEmptyParse, committed, run, fn >>

Item(t, v, p, lo, hi) == [t |-> t, v |-> v, p |-> p, lo |-> lo, hi |-> hi]

Min(a, b) == IF a < b THEN a ELSE b

Max(a, b) == IF a > b THEN a ELSE b

\* A thrown exception and a normal return of a function that may throw.
Throw == [ok |-> FALSE, val |-> <<>>]

Ok(x) == [ok |-> TRUE, val |-> x]

\* ---------------------------------------------------------------- bytes

DIGEST_LEN == 32

\* new Uint8Array([...]) of literal byte values
Raw(s) == IF s = <<>> THEN <<>> ELSE << Item("raw", s, <<>>, 1, Len(s)) >>

\* bytes lo..hi of the opaque byte string of kind t named by p
Blob(t, p, lo, hi) == IF hi < lo THEN <<>> ELSE << Item(t, <<>>, p, lo, hi) >>

ChunkLen(c) == c.hi - c.lo + 1

RECURSIVE BytesLen(_)
BytesLen(b) == IF b = <<>> THEN 0 ELSE ChunkLen(b[1]) + BytesLen(Tail(b))

\* Two adjacent chunks that are one run of bytes are kept as one chunk.
Mergeable(x, y) ==
    \/ x.t = "raw" /\ y.t = "raw"
    \/ x.t # "raw" /\ x.t = y.t /\ x.p = y.p /\ x.hi + 1 = y.lo

Merge(x, y) ==
    IF x.t = "raw"
    THEN Item("raw", x.v \o y.v, <<>>, 1, Len(x.v) + Len(y.v))
    ELSE Item(x.t, <<>>, x.p, x.lo, y.hi)

Join(a, b) ==
    IF a = <<>> THEN b
    ELSE IF b = <<>> THEN a
    ELSE IF Mergeable(a[Len(a)], b[1])
         THEN SubSeq(a, 1, Len(a) - 1) \o << Merge(a[Len(a)], b[1]) >> \o Tail(b)
         ELSE a \o b

\* byte_arrays.ts: the arrays copied one after the other into a new array
RECURSIVE concatenateArrays(_)
concatenateArrays(arrays) ==
    IF arrays = <<>> THEN <<>>
    ELSE Join(arrays[1], concatenateArrays(Tail(arrays)))

\* byte_arrays.ts: equal lengths, then every byte equal
areArraysEqualByLength(arr1, arr2) == BytesLen(arr1) = BytesLen(arr2)

areArraysEqual(arr1, arr2) ==
    IF BytesLen(arr1) # BytesLen(arr2) THEN FALSE
    ELSE arr1 = arr2

ChunkDrop(c, n) ==
    IF c.t = "raw"
    THEN Item("raw", SubSeq(c.v, n + 1, Len(c.v)), <<>>, 1, Len(c.v) - n)
    ELSE [c EXCEPT !.lo = c.lo + n]

ChunkTake(c, n) ==
    IF c.t = "raw"
    THEN Item("raw", SubSeq(c.v, 1, n), <<>>, 1, n)
    ELSE [c EXCEPT !.hi = c.lo + n - 1]

RECURSIVE DropBytes(_, _)
DropBytes(b, n) ==
    IF n <= 0 \/ b = <<>> THEN b
    ELSE IF n >= ChunkLen(b[1]) THEN DropBytes(Tail(b), n - ChunkLen(b[1]))
    ELSE << ChunkDrop(b[1], n) >> \o Tail(b)

RECURSIVE TakeBytes(_, _)
TakeBytes(b, n) ==
    IF n <= 0 \/ b = <<>> THEN <<>>
    ELSE IF n >= ChunkLen(b[1]) THEN << b[1] >> \o TakeBytes(Tail(b), n - ChunkLen(b[1]))
    ELSE << ChunkTake(b[1], n) >>

\* Uint8Array.prototype.slice(start, end) for 0 <= start <= end
SliceBytes(b, start, end) == TakeBytes(DropBytes(b, start), end - start)

\* hashing.ts: crypto.subtle.digest("SHA-256", data), 32 bytes
sha256(data) == Blob("sha", data, 1, DIGEST_LEN)

\* ---------------------------------------------------------------- strings
\* A string is a sequence of items: a hex digit ("nib", its value in v), the
\* letter x ("x"), any other character ("bad"), plain text ("txt", its
\* character codes in v), the lowercase hex text of a byte array ("hex") and
\* the base64 text of a byte array ("b64").

Nib(n) == Item("nib", << n >>, <<>>, 0, 0)

CharX == Item("x", <<>>, <<>>, 0, 0)

CharBad == Item("bad", <<>>, <<>>, 0, 0)

ItemChars(c) ==
    CASE c.t = "hex" -> 2 * BytesLen(c.p)
      [] c.t = "b64" -> 4 * ((BytesLen(c.p) + 2) \div 3)
      [] c.t = "txt" -> Len(c.v)
      [] OTHER -> 1

RECURSIVE StrLen(_)
StrLen(s) == IF s = <<>> THEN 0 ELSE ItemChars(s[1]) + StrLen(Tail(s))

\* new TextEncoder().encode(str): one byte per character of these ASCII strings
TextEncode(str) == Blob("utf8", str, 1, StrLen(str))

\* conversion.ts bytesToBase64: btoa(String.fromCharCode(...bytes))
bytesToBase64(bytes) ==
    IF bytes = <<>> THEN <<>> ELSE << Item("b64", <<>>, bytes, 0, 0) >>

RECURSIVE AtobBytes(_)
AtobBytes(s) == IF s = <<>> THEN <<>> ELSE Join(s[1].p, AtobBytes(Tail(s)))

\* conversion.ts base64ToBytes: atob throws on a character outside the alphabet
base64ToBytes(base64) ==
    IF \E i \in 1..Len(base64) : base64[i].t # "b64" THEN Throw
    ELSE Ok(AtobBytes(base64))

\* conversion.ts bytesToHex
bytesToHex(bytes, prefix) ==
    LET hex == IF bytes = <<>> THEN <<>> ELSE << Item("hex", <<>>, bytes, 0, 0) >>
    IN  IF prefix THEN << Nib(0), CharX >> \o hex ELSE hex

\* Two hex digits make a byte; the hex text of whole bytes after an odd number
\* of digits decodes to bytes that belong to no array of the model ("mis").
RECURSIVE HexPairs(_)
HexPairs(s) ==
    IF s = <<>> THEN <<>>
    ELSE IF s[1].t = "hex" THEN Join(s[1].p, HexPairs(Tail(s)))
    ELSE IF Len(s) >= 2 /\ s[2].t = "nib"
         THEN Join(Raw(<< 16 * s[1].v[1] + s[2].v[1] >>), HexPairs(SubSeq(s, 3, Len(s))))
         ELSE Blob("mis", s, 1, StrLen(s) \div 2)

\* conversion.ts hexToBytes: strip 0x, reject non-hex, left-pad odd length
hexToBytes(hexString) ==
    LET normalizedHex ==
            IF Len(hexString) >= 2 /\ hexString[1] = Nib(0) /\ hexString[2] = CharX
            THEN SubSeq(hexString, 3, Len(hexString))
            ELSE hexString
        paddedHex ==
            IF StrLen(normalizedHex) % 2 = 1 THEN << Nib(0) >> \o normalizedHex
            ELSE normalizedHex
    IN  IF \E i \in 1..Len(normalizedHex) : normalizedHex[i].t \notin {"nib", "hex"}
        THEN Throw
        ELSE Ok(HexPairs(paddedHex))

\* ---------------------------------------------------------------- bits

Reverse(s) == [i \in 1..Len(s) |-> s[Len(s) + 1 - i]]

\* Array.prototype.slice(start) and slice(0, end), with a negative start
\* counted from the end
SliceFirst(s, start) == SubSeq(s, 1, Len(s) - Min(Max(start, 0), Len(s)))

SliceFrom(s, start) ==
    LET from == IF start < 0 THEN Max(Len(s) + start, 0) ELSE Min(start, Len(s))
    IN  SubSeq(s, from + 1, Len(s))

SliceLast(s, end) == SubSeq(s, Len(s) - Min(Max(end, 0), Len(s)) + 1, Len(s))

SliceTo(s, end) == SubSeq(s, 1, Min(Max(end, 0), Len(s)))

\* (byte >> (7 - j)) & 1 for j = 0..7
ByteBits(byte) == [j \in 1..8 |-> (byte \div 2 ^ (8 - j)) % 2]

RECURSIVE RawBits(_)
RawBits(v) == IF v = <<>> THEN <<>> ELSE ByteBits(v[1]) \o RawBits(Tail(v))

\* The bits of a digest are those shaBits gives for its preimage, then zeros.
BlobBits(c) ==
    LET lead == IF c.t = "sha" /\ c.p \in DOMAIN shaBits THEN shaBits[c.p] ELSE <<>>
        full == [i \in 1..(8 * c.hi) |-> IF i <= Len(lead) THEN lead[i] ELSE 0]
    IN  SubSeq(full, 8 * (c.lo - 1) + 1, 8 * c.hi)

\* conversion.ts bytesToBits: most-significant bit of byte 0 first
RECURSIVE bytesToBits(_)
bytesToBits(uint8Array) ==
    IF uint8Array = <<>> THEN <<>>
    ELSE (IF uint8Array[1].t = "raw" THEN RawBits(uint8Array[1].v)
          ELSE BlobBits(uint8Array[1])) \o bytesToBits(Tail(uint8Array))

\* JavaScript num >> count on a number 0 <= num < 2^31: the count is taken
\* modulo 32
JsShr(num, count) == num \div 2 ^ (count % 32)

\* conversion.ts numberToBits: bytes[i] = (num >> (56 - i * 8)) & 0xff
numberToBits(num) ==
    RawBits([i \in 1..8 |-> JsShr(num, 56 - (i - 1) * 8) % 256])

\* ---------------------------------------------------------------- proof_validation.ts

CT_NODE_PREFIX == Raw(<< 1 >>)

\* "JMT::LeafNode"
PRISM_LEAF_DOMAIN_SEPARATOR ==
    Raw(<< 74, 77, 84, 58, 58, 76, 101, 97, 102, 78, 111, 100, 101 >>)

\* "JMT::IntrnalNode"
PRISM_INTERNAL_DOMAIN_SEPARATOR ==
    Raw(<< 74, 77, 84, 58, 58, 73, 110, 116, 114, 110, 97, 108, 78, 111, 100, 101 >>)

\* The results of a map over a sequence of strings, or the first exception.
AllOk(rs) == \A i \in 1..Len(rs) : rs[i].ok

Vals(rs) == [i \in 1..Len(rs) |-> rs[i].val]

\* One step of the loop of calculateRootHash: bit 1 puts the sibling on the
\* left; bits[i] is undefined past the end of bits and then is not 1.
FoldStepIgnoringBit(hashPrefix, bits, i, siblingHash, currentHash) ==
    sha256(concatenateArrays(<< hashPrefix, currentHash, siblingHash >>))

FoldStep(hashPrefix, bits, i, siblingHash, currentHash) ==
    IF i <= Len(bits) /\ bits[i] = 1
    THEN sha256(concatenateArrays(<< hashPrefix, siblingHash, currentHash >>))
    ELSE sha256(concatenateArrays(<< hashPrefix, currentHash, siblingHash >>))

RECURSIVE FoldFrom(_, _, _, _, _)
FoldFrom(currentHash, i, bits, siblingHashes, hashPrefix) ==
    IF i > Len(siblingHashes) THEN currentHash
    ELSE FoldFrom(FoldStep(hashPrefix, bits, i, siblingHashes[i], currentHash),
                  i + 1, bits, siblingHashes, hashPrefix)

calculateRootHash(leafHash, bits, siblingHashes, hashPrefix) ==
    FoldFrom(leafHash, 1, bits, siblingHashes, hashPrefix)

\* The body of the try block of validateCtProof.
ValidateCtProofTry(proof, leafHash, expectedRootHash) ==
    LET bits == SliceTo(Reverse(numberToBits(proof.leaf_index)), Len(proof.audit_path))
        decoded == [i \in 1..Len(proof.audit_path) |-> base64ToBytes(proof.audit_path[i])]
    IN  IF ~AllOk(decoded) THEN Throw
        ELSE Ok(areArraysEqual(
                 calculateRootHash(leafHash, bits, Vals(decoded), CT_NODE_PREFIX),
                 expectedRootHash))

\* validateCtProof: the catch block returns false.
validateCtProof(proof, leafHash, expectedRootHash) ==
    LET r == ValidateCtProofTry(proof, leafHash, expectedRootHash)
    IN  IF r.ok THEN r ELSE Ok(FALSE)

\* The body of the try block of validatePrismProof.  proof.leaf is optional:
\* hasLeaf is false when the property is undefined.
ValidatePrismProofTry(proof, key, value, expectedRootHashHex) ==
    IF ~proof.hasLeaf \/ proof.leaf = <<>> THEN Ok(FALSE)
    ELSE
      LET keyHash == sha256(TextEncode(key))
          valueHash == sha256(value)
          leafHash == sha256(concatenateArrays(
                          << PRISM_LEAF_DOMAIN_SEPARATOR, keyHash, valueHash >>))
          expectedLeafHash == hexToBytes(proof.leaf)
          expectedRootHash == hexToBytes(expectedRootHashHex)
          bits == SliceFrom(Reverse(bytesToBits(keyHash)), 256 - Len(proof.siblings))
          decoded == [i \in 1..Len(proof.siblings) |-> hexToBytes(proof.siblings[i])]
      IN  IF ~expectedLeafHash.ok THEN Throw
          ELSE IF ~areArraysEqual(leafHash, expectedLeafHash.val) THEN Ok(FALSE)
          ELSE IF ~expectedRootHash.ok THEN Throw
          ELSE IF ~AllOk(decoded) THEN Throw
          ELSE Ok(areArraysEqual(
                   calculateRootHash(leafHash, bits, Vals(decoded),
                                     PRISM_INTERNAL_DOMAIN_SEPARATOR),
                   expectedRootHash.val))

validatePrismProofNoCatch(proof, key, value, expectedRootHashHex) ==
    ValidatePrismProofTry(proof, key, value, expectedRootHashHex)

validatePrismProof(proof, key, value, expectedRootHashHex) ==
    LET r == ValidatePrismProofTry(proof, key, value, expectedRootHashHex)
    IN  IF r.ok THEN r ELSE Ok(FALSE)

\* ---------------------------------------------------------------- prism_serialization.ts

RECURSIVE LittleEndian(_, _)
LittleEndian(num, width) ==
    IF width = 0 THEN <<>> ELSE << num % 256 >> \o LittleEndian(num \div 256, width - 1)

BigEndian(num, width) == Reverse(LittleEndian(num, width))

num64ToBincodeLe(num) == Raw(LittleEndian(num, 8))

bytesToBincode(bytes) == concatenateArrays(<< num64ToBincodeLe(BytesLen(bytes)), bytes >>)

stringToBincode(str) == bytesToBincode(TextEncode(str))

cryptoAlgorithmToByte(algorithm) ==
    CASE algorithm = "ed25519" -> Ok(Raw(<< 0 >>))
      [] algorithm = "secp256k1" -> Ok(Raw(<< 1 >>))
      [] algorithm = "secp256r1" -> Ok(Raw(<< 2 >>))
      [] OTHER -> Throw

cryptoAlgorithmToBincode(algorithm) ==
    CASE algorithm = "ed25519" -> Ok(Raw(<< 0, 0, 0, 0 >>))
      [] algorithm = "secp256k1" -> Ok(Raw(<< 1, 0, 0, 0 >>))
      [] algorithm = "secp256r1" -> Ok(Raw(<< 2, 0, 0, 0 >>))
      [] OTHER -> Throw

\* The concatenation of results, or the exception one of them is.
ConcatOk(rs) == IF AllOk(rs) THEN Ok(concatenateArrays(Vals(rs))) ELSE Throw

Base64ToBincode(base64) ==
    LET b == base64ToBytes(base64) IN IF b.ok THEN Ok(bytesToBincode(b.val)) ELSE Throw

cryptoPayloadToBincode(cryptoPayload) ==
    ConcatOk(<< cryptoAlgorithmToBincode(cryptoPayload.algorithm),
                Base64ToBincode(cryptoPayload.bytes) >>)

signedDataToBincode(signedData) ==
    ConcatOk(<< cryptoPayloadToBincode(signedData.key), Base64ToBincode(signedData.data) >>)

serviceChallengeToBincode(challenge) == Base64ToBincode(challenge.Signed.bytes)

\* account.service_challenge is optional: a sequence of no or one challenge.
prismAccountToBincode(account) ==
    ConcatOk(<< Ok(stringToBincode(account.id)),
                Ok(num64ToBincodeLe(account.nonce)),
                Ok(num64ToBincodeLe(Len(account.valid_keys))),
                ConcatOk([i \in 1..Len(account.valid_keys) |->
                              cryptoPayloadToBincode(account.valid_keys[i])]),
                Ok(num64ToBincodeLe(Len(account.signed_data))),
                ConcatOk([i \in 1..Len(account.signed_data) |->
                              signedDataToBincode(account.signed_data[i])]),
                IF account.service_challenge # <<>>
                THEN serviceChallengeToBincode(account.service_challenge[1])
                ELSE Ok(Raw(<< 0 >>)) >>)

\* ---------------------------------------------------------------- ct_parsing.ts
\* A DER certificate is a record: whether the ASN.1 parser accepts it (parses),
\* what names its to-be-signed part without the timestamp-list extension (tbs,
\* tbsLen bytes long) and its public-key info (spki, spkiLen bytes long),
\* whether it carries the timestamp-list extension (hasSctExt), whether that
\* list decodes (sctListOk) and the timestamp proofs of the list (scts).  A
\* timestamp proof is [logId, timestamp, extensions].

MAX_UINT16 == 65535

\* AsnParser.parse(sctExtensionBytes, CertificateTransparency).items; without
\* the extension the parser is given an empty OctetString, and emptyParse says
\* what the ASN.1 library then does: "throws" or "empty" (no items).
sctsFromCertDer(certDer, emptyParse) ==
    IF ~certDer.parses THEN Throw
    ELSE IF ~certDer.hasSctExt
         THEN (IF emptyParse = "throws" THEN Throw ELSE Ok(<<>>))
    ELSE IF ~certDer.sctListOk THEN Throw
    ELSE Ok(certDer.scts)

\* Number(view.getBigUint64(offset)) over literal bytes
RECURSIVE BigEndianValue(_, _)
BigEndianValue(v, acc) ==
    IF v = <<>> THEN acc ELSE BigEndianValue(Tail(v), acc * 256 + v[1])

Uint32At(bytes, offset) ==
    LET v == SliceBytes(bytes, offset, offset + 4)[1].v
    IN  IF v[1] < 128 THEN BigEndianValue(v, 0) ELSE [double |-> RawBits(v)]

\* Number(view.getBigUint64(offset)): the number itself below 2^31; from there
\* on the double nearest to it (ties to the even one), held as its binary
\* digits from the leading 1, [double |-> digits]: a double keeps 53 of them.
Uint64At(bytes, offset) ==
    LET v == SliceBytes(bytes, offset, offset + 8)[1].v
        bits == RawBits(v)
        lead == CHOOSE i \in 1..64 : bits[i] = 1 /\ \A j \in 1..(i - 1) : bits[j] = 0
        kept == SubSeq(bits, lead, lead + 52)
        rest == SubSeq(bits, lead + 53, 64)
        up == /\ rest[1] = 1
              /\ (kept[53] = 1 \/ \E j \in 2..Len(rest) : rest[j] = 1)
        zero == CHOOSE z \in 1..53 : kept[z] = 0 /\ \A j \in (z + 1)..53 : kept[j] = 1
        next == IF \A j \in 1..53 : kept[j] = 1
                THEN << 1 >> \o [j \in 1..53 |-> 0]
                ELSE SubSeq(kept, 1, zero - 1) \o << 1 >> \o [j \in 1..(53 - zero) |-> 0]
    IN  IF SubSeq(v, 1, 4) = << 0, 0, 0, 0 >> /\ v[5] < 128 THEN BigEndianValue(v, 0)
        ELSE IF 65 - lead <= 53 THEN [double |-> SubSeq(bits, lead, 64)]
        ELSE [double |-> (IF up THEN next ELSE kept) \o [j \in 1..Len(rest) |-> 0]]

Uint8At(bytes, offset) == SliceBytes(bytes, offset, offset + 1)[1].v[1]

\* The DataView getters throw a RangeError when they read past the end: the
\* last read is getBigUint64(10), of bytes 10..17.
sthFromBytes(bytes) ==
    IF BytesLen(bytes) < 18 THEN Throw
    ELSE Ok([version |-> Uint8At(bytes, 0),
             signatureType |-> Uint8At(bytes, 1),
             timestamp |-> Uint64At(bytes, 2),
             treeSize |-> Uint64At(bytes, 10),
             rootHash |-> SliceBytes(bytes, 18, 50)])

Uint16LittleBytes(value) == Raw(LittleEndian(value % 65536, 2))

\* view.setUint16(offset, value) stores value modulo 2^16
Uint16Bytes(value) == Raw(BigEndian(value % 65536, 2))

logEntryBytesForPreCert(certDer, issuerDer, sct_time, sct_extensions) ==
    IF ~certDer.parses \/ ~issuerDer.parses THEN Throw
    ELSE
      LET tbsCertBytes == Blob("tbs", certDer.tbs, 1, certDer.tbsLen)
          issuerPublicKey == Blob("spki", issuerDer.spki, 1, issuerDer.spkiLen)
          issuerKeyHash == sha256(issuerPublicKey)
          version == 0
          leafType == 0
          entryType == 1
          leafBytes == concatenateArrays(
              << Raw(<< version, leafType >>),
                 Raw(BigEndian(sct_time, 8)),
                 Uint16Bytes(entryType),
                 issuerKeyHash,
                 Raw(<< (BytesLen(tbsCertBytes) \div 65536) % 256,
                        (BytesLen(tbsCertBytes) \div 256) % 256,
                        BytesLen(tbsCertBytes) % 256 >>),
                 tbsCertBytes,
                 Uint16Bytes(BytesLen(sct_extensions)),
                 sct_extensions >>)
      IN  Ok(concatenateArrays(<< Raw(<< 0 >>), leafBytes >>))

\* ---------------------------------------------------------------- the world
\* The logs of the public list, the certificate of the site, and what honest
\* servers hold.  Log 1 and log 2 are on the list, log 3 is not.

Name(n) == << Item("name", << n >>, <<>>, 0, 0) >>

KnownLogs == {1, 2}

UnknownLogs == {3}

\* A log's identifier is the SHA-256 digest of its public key.
LogKeyId(n) == sha256(Blob("spki", Name(100 + n), 1, 91))

CtLog(n) ==
    [description |-> n, log_id |-> bytesToBase64(LogKeyId(n)), url |-> n]

LogList == << CtLog(1), CtLog(2) >>

\* CtLogStore.getLogById: this.logs[logId], undefined (no element) if absent;
\* initLogRecords lets a later entry of the list overwrite an earlier one.
getLogByIdOrFirst(logId) ==
    LET found == {i \in 1..Len(LogList) : LogList[i].log_id = logId}
    IN  IF found = {} THEN << LogList[1] >>
        ELSE << LogList[CHOOSE i \in found : \A j \in found : j <= i] >>

getLogById(logId) ==
    LET found == {i \in 1..Len(LogList) : LogList[i].log_id = logId}
    IN  IF found = {} THEN <<>>
        ELSE << LogList[CHOOSE i \in found : \A j \in found : j <= i] >>

Sct(n) == [logId |-> LogKeyId(n), timestamp |-> 1000 + n, extensions |-> <<>>]

SiteCert(logs) ==
    [parses |-> TRUE, tbs |-> Name(1), tbsLen |-> 300, spki |-> Name(1), spkiLen |-> 91,
     hasSctExt |-> TRUE, sctListOk |-> TRUE,
     scts |-> [i \in 1..Len(logs) |-> Sct(logs[i])]]

IssuerCert ==
    [parses |-> TRUE, tbs |-> Name(2), tbsLen |-> 400, spki |-> Name(2), spkiLen |-> 91,
     hasSctExt |-> FALSE, sctListOk |-> TRUE, scts |-> <<>>]

\* The leaf a log hashed when it admitted the site's certificate.
HonestLeafHash(n) ==
    sha256(logEntryBytesForPreCert(SiteCert(<<>>), IssuerCert,
                                   Sct(n).timestamp, Sct(n).extensions).val)

CtNode(left, right) == sha256(concatenateArrays(<< CT_NODE_PREFIX, left, right >>))

OtherLeaf(n, k) == sha256(Raw(<< n, k >>))

\* Log 1 holds two leaves, the certificate at index 0; log 2 holds four, the
\* certificate at index 1.
HonestTreeSize(n) == IF n = 1 THEN 2 ELSE 4

HonestLeafIndex(n) == IF n = 1 THEN 0 ELSE 1

HonestAuditPath(n) ==
    IF n = 1 THEN << OtherLeaf(n, 1) >>
    ELSE << OtherLeaf(n, 0), CtNode(OtherLeaf(n, 2), OtherLeaf(n, 3)) >>

HonestCtRoot(n) ==
    IF n = 1 THEN CtNode(HonestLeafHash(n), OtherLeaf(n, 1))
    ELSE CtNode(CtNode(OtherLeaf(n, 0), HonestLeafHash(n)),
                CtNode(OtherLeaf(n, 2), OtherLeaf(n, 3)))

\* The signed tree head as the log's account holds it: version, signature
\* type, timestamp, tree size, root hash, then the signature.
HonestSthBytes(n) ==
    concatenateArrays(<< Raw(<< 0, 1 >>), Raw(BigEndian(5000 + n, 8)),
                         Raw(BigEndian(HonestTreeSize(n), 8)), HonestCtRoot(n),
                         Raw(<< 4, 3, 0, 2, 7, 7 >>) >>)

\* What the commitment service holds as the payload of log n's account: the
\* tree head, or a payload cut short after 10 or after 40 bytes.
CommittedKinds == {"honest", "short", "truncated"}

CommittedPayload(n, kind) ==
    CASE kind = "short" -> SliceBytes(HonestSthBytes(n), 0, 10)
      [] kind = "truncated" -> SliceBytes(HonestSthBytes(n), 0, 40)
      [] OTHER -> HonestSthBytes(n)

LogKeyPayload(n) == [algorithm |-> "ed25519", bytes |-> bytesToBase64(Raw(<< 170, 187, n >>))]

CommittedAccount(n, kind) ==
    [id |-> CtLog(n).log_id, nonce |-> 7, valid_keys |-> << LogKeyPayload(n) >>,
     signed_data |-> << [key |-> LogKeyPayload(n),
                         data |-> bytesToBase64(CommittedPayload(n, kind))] >>,
     service_challenge |-> <<>>]

PrismKeyHash(n) == sha256(TextEncode(CtLog(n).log_id))

PrismLeaf(n, kind) ==
    sha256(concatenateArrays(
        << PRISM_LEAF_DOMAIN_SEPARATOR, PrismKeyHash(n),
           sha256(prismAccountToBincode(CommittedAccount(n, kind)).val) >>))

PrismNode(left, right) ==
    sha256(concatenateArrays(<< PRISM_INTERNAL_DOMAIN_SEPARATOR, left, right >>))

\* The service's tree has the two accounts as the children of its root, the
\* account whose key hash starts with bit 0 on the left.
KeyBitsOfLogs ==
    [k \in {TextEncode(CtLog(1).log_id), TextEncode(CtLog(2).log_id)} |->
        IF k = TextEncode(CtLog(1).log_id) THEN << 0 >> ELSE << 1 >>]

PrismRoot(kinds) ==
    IF bytesToBits(PrismKeyHash(1))[1] = 0
    THEN PrismNode(PrismLeaf(1, kinds[1]), PrismLeaf(2, kinds[2]))
    ELSE PrismNode(PrismLeaf(2, kinds[2]), PrismLeaf(1, kinds[1]))

OtherLog(n) == 3 - n

\* ---------------------------------------------------------------- the servers' answers
\* An answer is named by a scenario; the same request gets the same answer.

AccountScenarios ==
    {"ok", "fetchFails", "noAccount", "noLeaf", "noSignedData", "twoSignedData",
     "badAlgorithm", "staleAccount", "badLeafHex", "badSiblingHex", "wrongSibling"}

OtherDigestHex == bytesToHex(sha256(Raw(<< 9 >>)), FALSE)

HonestPrismProof(n) ==
    [hasLeaf |-> TRUE,
     leaf |-> bytesToHex(PrismLeaf(n, committed[n]), FALSE),
     siblings |-> << bytesToHex(PrismLeaf(OtherLog(n), committed[OtherLog(n)]), FALSE) >>]

\* What getAccount resolves to, or that it rejects, given the account and the
\* proof the service holds: fails is true when postJson throws; account is
\* optional.
AccountResponseFrom(acc, proof, scenario) ==
    CASE scenario = "fetchFails" -> [fails |-> TRUE, account |-> <<>>, proof |-> proof]
      [] scenario = "noAccount" ->
            [fails |-> FALSE, account |-> <<>>,
             proof |-> [hasLeaf |-> FALSE, leaf |-> <<>>, siblings |-> proof.siblings]]
      [] scenario = "noLeaf" ->
            [fails |-> FALSE, account |-> << acc >>,
             proof |-> [proof EXCEPT !.hasLeaf = FALSE, !.leaf = <<>>]]
      [] scenario = "noSignedData" ->
            [fails |-> FALSE, account |-> << [acc EXCEPT !.signed_data = <<>>] >>,
             proof |-> proof]
      [] scenario = "twoSignedData" ->
            [fails |-> FALSE,
             account |-> << [acc EXCEPT !.signed_data = @ \o @] >>,
             proof |-> proof]
      [] scenario = "badAlgorithm" ->
            [fails |-> FALSE,
             account |-> << [acc EXCEPT !.valid_keys[1].algorithm = "rsa"] >>,
             proof |-> proof]
      [] scenario = "staleAccount" ->
            [fails |-> FALSE, account |-> << [acc EXCEPT !.nonce = 8] >>, proof |-> proof]
      [] scenario = "badLeafHex" ->
            [fails |-> FALSE, account |-> << acc >>,
             proof |-> [proof EXCEPT !.leaf = << CharBad >> \o @]]
      [] scenario = "badSiblingHex" ->
            [fails |-> FALSE, account |-> << acc >>,
             proof |-> [proof EXCEPT !.siblings = << << CharBad >> >>]]
      [] scenario = "wrongSibling" ->
            [fails |-> FALSE, account |-> << acc >>,
             proof |-> [proof EXCEPT !.siblings = << OtherDigestHex >>]]
      [] OTHER -> [fails |-> FALSE, account |-> << acc >>, proof |-> proof]

\* PrismClient.getAccount(accountId) for the account of log n
AccountResponse(n, scenario) ==
    AccountResponseFrom(CommittedAccount(n, committed[n]), HonestPrismProof(n), scenario)

CommitmentScenarios == {"ok", "fetchFails", "badHex", "stale"}

\* PrismClient.getCommitment()
CommitmentResponse(scenario) ==
    CASE scenario = "fetchFails" -> [fails |-> TRUE, commitment |-> <<>>]
      [] scenario = "badHex" -> [fails |-> FALSE, commitment |-> << Nib(10), CharBad >>]
      [] scenario = "stale" ->
            [fails |-> FALSE, commitment |-> bytesToHex(sha256(Raw(<< 8 >>)), FALSE)]
      [] OTHER -> [fails |-> FALSE, commitment |-> bytesToHex(PrismRoot(committed), FALSE)]

ProofScenarios == {"ok", "fetchFails", "badPathEntry", "wrongSibling", "wrongIndex"}

HonestCtProof(n) ==
    [leaf_index |-> HonestLeafIndex(n),
     audit_path |-> [i \in 1..Len(HonestAuditPath(n)) |-> bytesToBase64(HonestAuditPath(n)[i])]]

\* CTLogClient(log.url).getProofByHash(b64entryHash, treeSize) at log n: an
\* honest log answers only for a leaf and a size of its tree.
ProofResponse(n, scenario, b64entryHash, treeSize) ==
    LET proof == HonestCtProof(n)
        res(p) == [fails |-> FALSE, proof |-> p]
    IN  CASE scenario = "fetchFails" -> [fails |-> TRUE, proof |-> proof]
          [] scenario = "badPathEntry" ->
                res([proof EXCEPT !.audit_path[1] = << CharBad >> \o proof.audit_path[1]])
          [] scenario = "wrongSibling" ->
                res([proof EXCEPT !.audit_path[1] = bytesToBase64(OtherLeaf(n, 9))])
          [] scenario = "wrongIndex" ->
                res([proof EXCEPT !.leaf_index = proof.leaf_index + 1])
          [] OTHER ->
                IF b64entryHash = bytesToBase64(HonestLeafHash(n)) /\ treeSize = HonestTreeSize(n)
                THEN res(proof)
                ELSE [fails |-> TRUE, proof |-> proof]

\* ---------------------------------------------------------------- verification_store.ts
\* A LogVerification is [name, valid]; its date is not modelled.  A domain's
\* entry of verificationsByDomain is optional: no or one DomainVerification.

Domains == {"https://a.example", "https://b.example"}

\* An operation handed to enqueue, with the invocation and the SCT it is for.
StoreOp(r, op, sct, domainName, logName, valid) ==
    [run |-> r, op |-> op, sct |-> sct, domainName |-> domainName,
     logName |-> logName, valid |-> valid]

enqueueFirst(operation) == << operation >> \o queue

\* enqueue: this.queue = this.queue.then(() => operation())
enqueue(operation) == Append(queue, operation)

ReportOperationFirst(byDomain, domainName, logName, valid) ==
    LET domainVerification ==
            IF byDomain[domainName] # <<>> THEN byDomain[domainName][1]
            ELSE [name |-> domainName, logVerifications |-> <<>>]
    IN  [byDomain EXCEPT ![domainName] =
            << [domainVerification EXCEPT
                   !.logVerifications = << [name |-> logName, valid |-> valid] >> \o @] >>]

\* the operation reportLogVerification enqueues
ReportOperation(byDomain, domainName, logName, valid) ==
    LET logVerification == [name |-> logName, valid |-> valid]
        domainVerification ==
            IF byDomain[domainName] # <<>> THEN byDomain[domainName][1]
            ELSE [name |-> domainName, logVerifications |-> <<>>]
    IN  [byDomain EXCEPT ![domainName] =
            << [domainVerification EXCEPT
                   !.logVerifications = Append(@, logVerification)] >>]

\* the operation clearVerificationForDomain enqueues
ClearOperationKeeping(byDomain, domainName) == byDomain

ClearOperation(byDomain, domainName) == [byDomain EXCEPT ![domainName] = <<>>]

ReadOperationShared(byDomain, domainName) ==
    IF byDomain[domainName] = <<>> THEN <<>>
    ELSE << [shared |-> TRUE, value |-> byDomain[domainName][1]] >>

\* the operation verificationForDomain enqueues: undefined (no element) for
\* a domain without a record, otherwise structuredClone of the record, an
\* object of its own (shared tells whether the result is the store's object).
ReadOperation(byDomain, domainName) ==
    IF byDomain[domainName] = <<>> THEN <<>>
    ELSE << [shared |-> FALSE, value |-> byDomain[domainName][1]] >>

\* ---------------------------------------------------------------- background.ts

LOG_LIST_URL == "https://www.gstatic.com/ct/log_list/v3/all_logs_list.json"

UrlA == "https://a.example/index.html"

UrlB == "https://b.example/"

\* new URL(url).origin
Origin(url) ==
    CASE url = UrlA -> "https://a.example"
      [] url = UrlB -> "https://b.example"
      [] OTHER -> "https://www.gstatic.com"

MaxScts == 2

SeqsUpTo(S, n) == UNION {[1..k -> S] : k \in 0..n}

MalformedCert == [SiteCert(<<>>) EXCEPT !.parses = FALSE]

NoExtensionCert == [SiteCert(<<>>) EXCEPT !.hasSctExt = FALSE]

BadListCert == [SiteCert(<<>>) EXCEPT !.sctListOk = FALSE]

Certificates ==
    {SiteCert(logs) : logs \in SeqsUpTo(KnownLogs \cup UnknownLogs, MaxScts)}
        \cup {MalformedCert, NoExtensionCert, BadListCert}

\* A web request: its URL and the browser's security info for it.
Request(url, state, certificates) ==
    [url |-> url, state |-> state, certificates |-> certificates]

Requests ==
    {Request(UrlA, "secure", << c, IssuerCert >>) : c \in Certificates}
        \cup {Request(UrlA, "secure", << SiteCert(<< 1, 2 >>), MalformedCert >>),
              Request(UrlA, "weak", << SiteCert(<< 2, 1 >>), IssuerCert >>)}

\* The requests that follow a request: the same again, the same certificate
\* from another origin, and requests that cannot be verified.
Following(req) ==
    {req,
     [req EXCEPT !.url = UrlB],
     [req EXCEPT !.url = LOG_LIST_URL],
     [req EXCEPT !.state = "insecure"],
     [req EXCEPT !.certificates = << req.certificates[1] >>]}

Runs == {1, 2}

Ev(e, i, ok, n, b) == [e |-> e, i |-> i, ok |-> ok, n |-> n, b |-> b]

IdleRun ==
    [pc |-> "idle", details |-> <<>>, domain |-> "", certs |-> <<>>, scts |-> <<>>,
     i |-> 0, log |-> <<>>, accountRes |-> <<>>, sth |-> <<>>, leafHash |-> <<>>,
     outcome |-> "", trace |-> <<>>, final |-> <<>>]

\* The listener returns or throws: the invocation is over.  final keeps what
\* the store then holds for the invocation's domain.
Finished(rr, outcome) ==
    [rr EXCEPT !.pc = "done", !.outcome = outcome,
               !.final = verificationsByDomain[rr.domain]]

Emit(rr, evs) == [rr EXCEPT !.trace = @ \o evs]

extractCertificatesAnyState(details) ==
    IF Len(details.certificates) < 2 THEN <<>>
    ELSE << [certDer |-> details.certificates[1], issuerDer |-> details.certificates[2]] >>

\* extractCertificates after getSecurityInfo resolved: null (no element) or
\* the certificate and its issuer
extractCertificates(details) ==
    IF details.state # "secure" /\ details.state # "weak" THEN <<>>
    ELSE IF Len(details.certificates) < 2 THEN <<>>
    ELSE << [certDer |-> details.certificates[1], issuerDer |-> details.certificates[2]] >>

\* if (details.url === CtLogStore.LOG_LIST_URL) return; otherwise the origin
\* is taken and getSecurityInfo is awaited.
Start(r) ==
    /\ run[r].pc = "idle"
    /\ \A q \in Runs : q < r => run[q].pc = "done"
    /\ \E details \in (IF r = 1 THEN Requests ELSE Following(run[r - 1].details[1])) :
          run' = [run EXCEPT ![r] =
                    IF details.url = LOG_LIST_URL
                    THEN [@ EXCEPT !.pc = "done", !.outcome = "ignored",
                                   !.details = << details >>]
                    ELSE [@ EXCEPT !.pc = "securityInfo", !.details = << details >>,
                                   !.domain = Origin(details.url)]]
    /\ UNCHANGED << shaBits, verificationsByDomain, queue, applied, ctLogStore,
                    accountResp, commitmentResp, proofResp, asnEmptyParse, committed, fn >>

\* if (!certs) return; otherwise CtLogStore.getInstance() is awaited.
SecurityInfoResolves(r) ==
    /\ run[r].pc = "securityInfo"
    /\ LET certs == extractCertificates(run[r].details[1])
       IN  run' = [run EXCEPT ![r] =
                     IF certs = <<>>
                     THEN [@ EXCEPT !.pc = "done", !.outcome = "ignored"]
                     ELSE [@ EXCEPT !.pc = "logStore", !.certs = certs]]
    /\ UNCHANGED << shaBits, verificationsByDomain, queue, applied, ctLogStore,
                    accountResp, commitmentResp, proofResp, asnEmptyParse, committed, fn >>

\* CtLogStore.getInstance() keeps its first promise: the log list is fetched
\* once, and a failed fetch rejects every later call too.  On success the
\* verification store is obtained and the domain's clearing is enqueued.
LogStoreResolves(r) ==
    /\ run[r].pc = "logStore"
    /\ \E outcome \in (IF ctLogStore = "none" THEN {"ready", "failed"} ELSE {ctLogStore}) :
          /\ ctLogStore' = outcome
          /\ IF outcome = "failed"
             THEN /\ run' = [run EXCEPT ![r] = Finished(@, "threw")]
                  /\ queue' = queue
             ELSE /\ run' = [run EXCEPT ![r].pc = "awaitClear"]
                  /\ queue' = enqueue(StoreOp(r, "clear", 0, run[r].domain, 0, FALSE))
    /\ UNCHANGED << shaBits, verificationsByDomain, applied, accountResp,
                    commitmentResp, proofResp, asnEmptyParse, committed, fn >>

\* The queue's next operation runs: what it does to the store, and the
\* caller awaiting its promise is woken.
StoreStep(operation) ==
    /\ verificationsByDomain' =
          CASE operation.op = "report" ->
                 ReportOperation(verificationsByDomain, operation.domainName,
                                 operation.logName, operation.valid)
            [] operation.op = "clear" ->
                 ClearOperation(verificationsByDomain, operation.domainName)
            [] OTHER -> verificationsByDomain
    /\ applied' = Append(applied, operation)
    /\ run' = [run EXCEPT ![operation.run].pc =
                 CASE @ = "awaitClear" -> "cleared"
                   [] @ = "awaitReport" -> "reported"
                   [] @ = "awaitCatch" -> "caught"
                   [] OTHER -> @]
    /\ queue' = Tail(queue)

\* The queue's next operation runs and its promise resolves.
StoreRuns ==
    /\ queue # <<>>
    /\ StoreStep(Head(queue))
    /\ UNCHANGED << shaBits, ctLogStore, accountResp, commitmentResp, proofResp,
                    asnEmptyParse, committed, fn >>

\* for (const sct of scts), from the SCT at position from up to the first
\* await: an SCT whose log the list lacks is skipped (continue); for the
\* first other SCT queryLogSth calls prism.getAccount(log.log_id); after the
\* last SCT the listener returns {}.
RECURSIVE SkippedFrom(_, _)
SkippedFrom(scts, from) ==
    IF from > Len(scts) \/ getLogById(bytesToBase64(scts[from].logId)) # <<>> THEN <<>>
    ELSE << Ev("skip", from, TRUE, 0, <<>>) >> \o SkippedFrom(scts, from + 1)

LoopFrom(rr, from) ==
    LET skipped == SkippedFrom(rr.scts, from)
        at == from + Len(skipped)
    IN  IF at > Len(rr.scts) THEN Finished(Emit(rr, skipped), "returned")
        ELSE LET log == getLogById(bytesToBase64(rr.scts[at].logId))[1]
             IN  [Emit(rr, skipped \o << Ev("getAccount", at, TRUE, log.description, log.log_id) >>)
                     EXCEPT !.pc = "getAccount", !.i = at, !.log = << log >>]

\* const scts = sctsFromCertDer(certs.certDer), after the clearing resolved
ParseScts(r) ==
    /\ run[r].pc = "cleared"
    /\ \E emptyParse \in (IF run[r].certs[1].certDer.parses /\ ~run[r].certs[1].certDer.hasSctExt
                             /\ asnEmptyParse = "unknown"
                          THEN {"throws", "empty"} ELSE {asnEmptyParse}) :
          /\ asnEmptyParse' = emptyParse
          /\ LET scts == sctsFromCertDer(run[r].certs[1].certDer, emptyParse)
             IN  run' = [run EXCEPT ![r] =
                           IF ~scts.ok THEN Finished(@, "threw")
                           ELSE LoopFrom([@ EXCEPT !.scts = scts.val], 1)]
    /\ UNCHANGED << shaBits, verificationsByDomain, queue, applied, ctLogStore,
                    accountResp, commitmentResp, proofResp, committed, fn >>

\* The report of the try block resolved: the loop goes on with the next SCT.
NextSct(r) ==
    /\ run[r].pc = "reported"
    /\ run' = [run EXCEPT ![r] = LoopFrom(@, @.i + 1)]
    /\ UNCHANGED << shaBits, verificationsByDomain, queue, applied, ctLogStore,
                    accountResp, commitmentResp, proofResp, asnEmptyParse, committed, fn >>

CatchRetries(rr) == LoopFrom(rr, rr.i)

\* The report of the catch block resolved: return.
CatchReturns(rr) == Finished(rr, "caught")

CatchResolves(r) ==
    /\ run[r].pc = "caught"
    /\ run' = [run EXCEPT ![r] = CatchReturns(@)]
    /\ UNCHANGED << shaBits, verificationsByDomain, queue, applied, ctLogStore,
                    accountResp, commitmentResp, proofResp, asnEmptyParse, committed, fn >>

\* catch (error): reportLogVerification(domain, log.description, false) is
\* enqueued and awaited.
CatchOperationValid(r, rr) ==
    StoreOp(r, "report", rr.i, rr.domain, rr.log[1].description, TRUE)

CatchOperation(r, rr) ==
    StoreOp(r, "report", rr.i, rr.domain, rr.log[1].description, FALSE)

Catch(r, rr, evs) ==
    /\ run' = [run EXCEPT ![r] =
                 [Emit(rr, evs \o << Ev("report", rr.i, FALSE, rr.log[1].description, <<>>) >>)
                     EXCEPT !.pc = "awaitCatch"]]
    /\ queue' = enqueue(CatchOperation(r, rr))

\* The server's account of a log of the list
LogNumber(log) == CHOOSE n \in KnownLogs : CtLog(n).log_id = log.log_id

\* queryLogSth's checks of the account response, before the commitment is asked for
AccountMissing(accountRes) == accountRes.account = <<>> \/ ~accountRes.proof.hasLeaf

SignedDataCountUnchecked(account) == FALSE

SignedDataCountWrong(account) == Len(account.signed_data) # 1

\* prism.getAccount(log.log_id) settles: a rejection and the two throws of
\* queryLogSth go to the catch block; otherwise prism.getCommitment() is awaited.
AccountResponds(r) ==
    /\ run[r].pc = "getAccount"
    /\ \E rr \in {run[r]} : \E n \in {LogNumber(rr.log[1])} :
       \E scenario \in (IF accountResp[n] = "unset" THEN AccountScenarios
                        ELSE {accountResp[n]}) :
       \E accountRes \in {AccountResponse(n, scenario)} :
          /\ accountResp' = [accountResp EXCEPT ![n] = scenario]
          /\ IF accountRes.fails
             THEN Catch(r, rr, << Ev("account", rr.i, FALSE, n, <<>>) >>)
             ELSE \E got \in {<< Ev("account", rr.i, TRUE, n, accountRes.account) >>} :
                IF AccountMissing(accountRes)
                THEN Catch(r, rr, got \o << Ev("found", rr.i, FALSE, n, <<>>) >>)
                ELSE IF SignedDataCountWrong(accountRes.account[1])
                     THEN Catch(r, rr, got \o
                               << Ev("signedData", rr.i, FALSE, n,
                                     Len(accountRes.account[1].signed_data)) >>)
                ELSE /\ run' = [run EXCEPT ![r] =
                                  [Emit(rr, got \o << Ev("getCommitment", rr.i, TRUE, n, <<>>) >>)
                                      EXCEPT !.pc = "getCommitment",
                                             !.accountRes = << accountRes >>]]
                     /\ queue' = queue
    /\ UNCHANGED << shaBits, verificationsByDomain, applied, ctLogStore,
                    commitmentResp, proofResp, asnEmptyParse, committed, fn >>

\* if (!isPrismProofValid) throw
InvalidPrismProofAccepted(isPrismProofValid) == FALSE

InvalidPrismProofThrows(isPrismProofValid) == ~isPrismProofValid

\* checkCertValidity up to the request of the audit proof: the leaf bytes are
\* built and hashed.
LeafHashFor(rr) ==
    sha256(logEntryBytesForPreCert(rr.certs[1].certDer, rr.certs[1].issuerDer,
                                   rr.scts[rr.i].timestamp, rr.scts[rr.i].extensions).val)

\* The tree size the audit proof is asked for
RequestedTreeSizeNext(sth) == sth.treeSize + 1

RequestedTreeSize(sth) == sth.treeSize

\* prism.getCommitment() settles.  queryLogSth goes on: the account is
\* serialized, the sparse proof is checked, and the tree head is decoded from
\* the account's only signed-data entry; then checkCertValidity runs up to
\* ctClient.getProofByHash(bytesToBase64(leafHash), sth.treeSize).  A
\* rejection or a throw on the way goes to the catch block.
CommitmentResponds(r) ==
    /\ run[r].pc = "getCommitment"
    /\ \E rr \in {run[r]} : \E n \in {LogNumber(rr.log[1])} :
       \E scenario \in (IF commitmentResp = "unset" THEN CommitmentScenarios
                        ELSE {commitmentResp}) :
       \E res \in {CommitmentResponse(scenario)} :
       \E got \in {<< Ev("commitment", rr.i, ~res.fails, n, <<>>) >>} :
       \E account \in {rr.accountRes[1].account[1]} :
       \E prismValue \in {prismAccountToBincode(account)} :
          /\ commitmentResp' = scenario
          /\ IF res.fails THEN Catch(r, rr, got)
             ELSE IF ~prismValue.ok
                  THEN Catch(r, rr, got \o << Ev("serialize", rr.i, FALSE, n, <<>>) >>)
             ELSE
               \E isPrismProofValid \in
                     {validatePrismProof(rr.accountRes[1].proof, rr.log[1].log_id,
                                         prismValue.val, res.commitment)} :
               \E checked \in {got \o << Ev("prismProof", rr.i,
                                            isPrismProofValid.ok /\ isPrismProofValid.val,
                                            n, account) >>} :
               \E sthBytes \in {IF account.signed_data = <<>> THEN Throw
                                 ELSE base64ToBytes(account.signed_data[1].data)} :
               \E sth \in {sthFromBytes(sthBytes.val)} :
               \E logEntryBytes \in
                     {logEntryBytesForPreCert(rr.certs[1].certDer, rr.certs[1].issuerDer,
                                              rr.scts[rr.i].timestamp,
                                              rr.scts[rr.i].extensions)} :
                  IF ~isPrismProofValid.ok
                  THEN Catch(r, rr, got \o << Ev("prismThrew", rr.i, FALSE, n, <<>>) >>)
                  ELSE IF InvalidPrismProofThrows(isPrismProofValid.val)
                       THEN Catch(r, rr, checked)
                  ELSE IF ~sthBytes.ok \/ ~sth.ok
                       THEN Catch(r, rr, checked \o << Ev("sth", rr.i, FALSE, n, <<>>) >>)
                  ELSE IF ~logEntryBytes.ok
                       THEN Catch(r, rr, checked \o << Ev("sth", rr.i, TRUE, n, sth.val),
                                                       Ev("leaf", rr.i, FALSE, n, <<>>) >>)
                  ELSE /\ run' = [run EXCEPT ![r] =
                             [Emit(rr, checked \o
                                       << Ev("sth", rr.i, TRUE, n, sth.val),
                                          Ev("leaf", rr.i, TRUE, n, LeafHashFor(rr)),
                                          Ev("getProof", rr.i, TRUE, n,
                                             [hash |-> bytesToBase64(LeafHashFor(rr)),
                                              treeSize |-> RequestedTreeSize(sth.val)]) >>)
                                 EXCEPT !.pc = "getProof", !.sth = << sth.val >>,
                                        !.leafHash = LeafHashFor(rr)]]
                       /\ queue' = queue
    /\ UNCHANGED << shaBits, verificationsByDomain, applied, ctLogStore,
                    accountResp, proofResp, asnEmptyParse, committed, fn >>

\* getProofByHash settles: a rejection goes to the catch block; otherwise
\* validateCtProof(ctProof, leafHash, sth.rootHash) gives the verdict, and
\* reportLogVerification(domain, log.description, isCtLogEntryValid) is
\* enqueued and awaited.
ProofResponds(r) ==
    /\ run[r].pc = "getProof"
    /\ \E rr \in {run[r]} : \E n \in {LogNumber(rr.log[1])} :
       \E b64entryHash \in {bytesToBase64(rr.leafHash)} :
       \E treeSize \in {RequestedTreeSize(rr.sth[1])} :
       \E scenario \in (IF proofResp[n] # <<>> /\ proofResp[n][1].hash = b64entryHash
                            /\ proofResp[n][1].treeSize = treeSize
                        THEN {proofResp[n][1].scenario} ELSE ProofScenarios) :
       \E res \in {ProofResponse(n, scenario, b64entryHash, treeSize)} :
       \E isCtLogEntryValid \in {validateCtProof(res.proof, rr.leafHash, rr.sth[1].rootHash)} :
       \E got \in {<< Ev("proof", rr.i, ~res.fails, n, <<>>) >>} :
          /\ proofResp' = [proofResp EXCEPT ![n] =
                             << [hash |-> b64entryHash, treeSize |-> treeSize,
                                 scenario |-> scenario] >>]
          /\ IF res.fails THEN Catch(r, rr, got)
             ELSE IF ~isCtLogEntryValid.ok
                  THEN Catch(r, rr, got \o << Ev("ctThrew", rr.i, FALSE, n, <<>>) >>)
             ELSE /\ run' = [run EXCEPT ![r] =
                        [Emit(rr, got \o
                                  << Ev("ctProof", rr.i, isCtLogEntryValid.val, n,
                                        rr.sth[1].rootHash),
                                     Ev("report", rr.i, isCtLogEntryValid.val, n, <<>>) >>)
                            EXCEPT !.pc = "awaitReport"]]
                  /\ queue' = enqueue(StoreOp(r, "report", rr.i, rr.domain,
                                              rr.log[1].description,
                                              isCtLogEntryValid.val))
    /\ UNCHANGED << shaBits, verificationsByDomain, applied, ctLogStore,
                    accountResp, commitmentResp, asnEmptyParse, committed, fn >>

\* What the commitment service holds: both logs' tree heads, at most one of
\* them cut short.
CommittedStates ==
    {c \in [KnownLogs -> CommittedKinds] : \E n \in KnownLogs : c[n] = "honest"}

Init ==
    /\ shaBits = KeyBitsOfLogs
    /\ verificationsByDomain = [d \in Domains |-> <<>>]
    /\ queue = <<>>
    /\ applied = <<>>
    /\ ctLogStore = "none"
    /\ accountResp = [n \in KnownLogs |-> "unset"]
    /\ commitmentResp = "unset"
    /\ proofResp = [n \in KnownLogs |-> <<>>]
    /\ asnEmptyParse = "unknown"
    /\ committed \in CommittedStates
    /\ run = [r \in Runs |-> IdleRun]
    /\ fn = <<>>

Next ==
    \/ \E r \in Runs : Start(r)
    \/ \E r \in Runs : SecurityInfoResolves(r)
    \/ \E r \in Runs : LogStoreResolves(r)
    \/ StoreRuns
    \/ \E r \in Runs : ParseScts(r)
    \/ \E r \in Runs : NextSct(r)
    \/ \E r \in Runs : CatchResolves(r)
    \/ \E r \in Runs : AccountResponds(r)
    \/ \E r \in Runs : CommitmentResponds(r)
    \/ \E r \in Runs : ProofResponds(r)

Spec == Init /\ [][Next]_vars

\* ---------------------------------------------------------------- the verifiers alone
\* A second specification calls validateCtProof and validatePrismProof on
\* arguments drawn from bounded sets, and validateCtProof on the proofs a log
\* of up to MaxLeaves leaves gives; fn holds the call and then its result.

MaxLeafIndex == 3

MaxPath == 2

LeafA == OtherLeaf(0, 0)

LeafB == OtherLeaf(0, 1)

BadBase64 == << CharBad >> \o bytesToBase64(LeafA)

PathEntries == {bytesToBase64(LeafA), bytesToBase64(LeafB), BadBase64}

CtRoots ==
    {LeafA, LeafB, CtNode(LeafA, LeafB), CtNode(LeafB, LeafA), SliceBytes(LeafA, 0, 22)}

CtCalls ==
    {[op |-> "ct", proof |-> [leaf_index |-> index, audit_path |-> path],
      leafHash |-> leaf, expectedRootHash |-> root, result |-> <<>>] :
        index \in 0..MaxLeafIndex, path \in SeqsUpTo(PathEntries, MaxPath),
        leaf \in {LeafA, LeafB}, root \in CtRoots}

BadHex == << Nib(10), CharBad >>

\* A sparse proof for log n's account by the kinds of its parts.
PrismLeafOf(n, kind) ==
    CASE kind = "wrong" -> OtherDigestHex
      [] kind = "badHex" -> BadHex
      [] kind = "absent" -> <<>>
      [] OTHER -> HonestPrismProof(n).leaf

PrismSiblingsOf(n, kind) ==
    CASE kind = "wrong" -> << OtherDigestHex >>
      [] kind = "badHex" -> << BadHex >>
      [] kind = "none" -> <<>>
      [] kind = "extra" -> HonestPrismProof(n).siblings \o << OtherDigestHex >>
      [] OTHER -> HonestPrismProof(n).siblings

PrismRootOf(kind) ==
    CASE kind = "stale" -> OtherDigestHex
      [] kind = "badHex" -> BadHex
      [] OTHER -> bytesToHex(PrismRoot(committed), TRUE)

PrismValueOf(n, kind) ==
    IF kind = "stale"
    THEN prismAccountToBincode([CommittedAccount(n, "honest") EXCEPT !.nonce = 8]).val
    ELSE prismAccountToBincode(CommittedAccount(n, "honest")).val

PrismCalls ==
    {[op |-> "prism", kinds |-> [leaf |-> l, siblings |-> s, root |-> c, value |-> v],
      proof |-> [hasLeaf |-> l # "absent", leaf |-> PrismLeafOf(n, l),
                 siblings |-> PrismSiblingsOf(n, s)],
      key |-> CtLog(n).log_id, value |-> PrismValueOf(n, v),
      expectedRootHashHex |-> PrismRootOf(c), result |-> <<>>] :
        n \in KnownLogs, l \in {"ok", "wrong", "badHex", "absent"},
        s \in {"ok", "wrong", "badHex", "none", "extra"},
        c \in {"ok", "stale", "badHex"}, v \in {"ok", "stale"}}

MaxLeaves == 5

\* The log's side of an inclusion proof: the root of the append-only tree over
\* a list of leaf hashes and the audit path of leaf m, as a CT log builds them
\* (the split is at the largest power of two below the number of leaves).
SplitAt(n) == CHOOSE k \in {1, 2, 4, 8, 16} : k < n /\ n <= 2 * k

RECURSIVE MerkleTreeHash(_)
MerkleTreeHash(leaves) ==
    IF Len(leaves) = 1 THEN leaves[1]
    ELSE CtNode(MerkleTreeHash(SubSeq(leaves, 1, SplitAt(Len(leaves)))),
                MerkleTreeHash(SubSeq(leaves, SplitAt(Len(leaves)) + 1, Len(leaves))))

RECURSIVE AuditPath(_, _)
AuditPath(m, leaves) ==
    IF Len(leaves) = 1 THEN <<>>
    ELSE LET k == SplitAt(Len(leaves))
             left == SubSeq(leaves, 1, k)
             right == SubSeq(leaves, k + 1, Len(leaves))
         IN  IF m < k THEN Append(AuditPath(m, left), MerkleTreeHash(right))
             ELSE Append(AuditPath(m - k, right), MerkleTreeHash(left))

TreeLeaves(n) == [i \in 1..n |-> OtherLeaf(5, i)]

InitProofs ==
    /\ shaBits = KeyBitsOfLogs
    /\ verificationsByDomain = [d \in Domains |-> <<>>]
    /\ queue = <<>>
    /\ applied = <<>>
    /\ ctLogStore = "none"
    /\ accountResp = [n \in KnownLogs |-> "unset"]
    /\ commitmentResp = "unset"
    /\ proofResp = [n \in KnownLogs |-> <<>>]
    /\ asnEmptyParse = "unknown"
    /\ committed = [n \in KnownLogs |-> "honest"]
    /\ run = [r \in Runs |-> IdleRun]
    /\ fn \in CtCalls \cup PrismCalls
                \cup UNION {{[op |-> "ct", leaves |-> n,
                       proof |-> [leaf_index |-> m,
                                  audit_path |-> [i \in 1..Len(AuditPath(m, TreeLeaves(n))) |->
                                      bytesToBase64(AuditPath(m, TreeLeaves(n))[i])]],
                       leafHash |-> TreeLeaves(n)[m + 1],
                       expectedRootHash |-> MerkleTreeHash(TreeLeaves(n)),
                       result |-> <<>>] : m \in 0..(n - 1)} : n \in 1..MaxLeaves}

CallValidateCtProof ==
    /\ fn.op = "ct"
    /\ fn.result = <<>>
    /\ fn' = [fn EXCEPT !.result =
                << validateCtProof(fn.proof, fn.leafHash, fn.expectedRootHash) >>]
    /\ UNCHANGED << shaBits, verificationsByDomain, queue, applied, ctLogStore, accountResp,
                    commitmentResp, proofResp, asnEmptyParse, committed, run >>

CallValidatePrismProof ==
    /\ fn.op = "prism"
    /\ fn.result = <<>>
    /\ fn' = [fn EXCEPT !.result =
                << validatePrismProof(fn.proof, fn.key, fn.value, fn.expectedRootHashHex) >>]
    /\ UNCHANGED << shaBits, verificationsByDomain, queue, applied, ctLogStore, accountResp,
                    commitmentResp, proofResp, asnEmptyParse, committed, run >>

NextProofs == CallValidateCtProof \/ CallValidatePrismProof

SpecProofs == InitProofs /\ [][NextProofs]_vars

\* ---------------------------------------------------------------- properties

\* The operations handed to the store so far, executed or still queued
Submitted == applied \o queue

\* The verdicts invocation r has had recorded, in order
RECURSIVE VerdictsIn(_, _)
VerdictsIn(ops, r) ==
    IF ops = <<>> THEN <<>>
    ELSE (IF Head(ops).op = "report" /\ Head(ops).run = r
          THEN << [name |-> Head(ops).logName, valid |-> Head(ops).valid] >>
          ELSE <<>>) \o VerdictsIn(Tail(ops), r)

\* The store holds, per domain, the verdicts recorded since its last clearing.
Stored(d) == IF verificationsByDomain[d] = <<>> THEN <<>>
             ELSE verificationsByDomain[d][1].logVerifications

\* Event k of invocation r is event e for SCT i with outcome ok.
Is(r, k, e, i, ok) ==
    run[r].trace[k].e = e /\ run[r].trace[k].i = i /\ run[r].trace[k].ok = ok

\* C1: a verdict of true is recorded for a (domain, log) pair only if, in the
\* same invocation and for the same log, validatePrismProof returned true and
\* afterwards validateCtProof returned true.
C1_TrueOnlyAfterBothProofs ==
    /\ \A k \in 1..Len(applied) :
          (applied[k].op = "report" /\ applied[k].valid) =>
             \E a, b \in 1..Len(run[applied[k].run].trace) :
                /\ a < b
                /\ Is(applied[k].run, a, "prismProof", applied[k].sct, TRUE)
                /\ Is(applied[k].run, b, "ctProof", applied[k].sct, TRUE)
                /\ run[applied[k].run].trace[a].n = applied[k].logName
                /\ run[applied[k].run].trace[b].n = applied[k].logName
                /\ run[applied[k].run].domain = applied[k].domainName
    /\ \A d \in Domains : \A j \in 1..Len(Stored(d)) :
          Stored(d)[j].valid =>
             \E k \in 1..Len(applied) :
                /\ applied[k].op = "report" /\ applied[k].valid
                /\ applied[k].domainName = d /\ applied[k].logName = Stored(d)[j].name

C1_Witness ==
    \E d \in Domains : \E j \in 1..Len(Stored(d)) : Stored(d)[j].valid /\ Stored(d)[j].name = 2

\* A log of the directory signed SCT i of invocation r.
InDirectory(sct) == \E k \in 1..Len(LogList) : LogList[k].log_id = bytesToBase64(sct.logId)

\* C2: a failure on one log never blocks the verdicts for the other logs of
\* the same certificate: when the invocation is over, every SCT of a log of
\* the directory has a verdict.
C2_EveryKnownLogGetsVerdict ==
    \A r \in Runs :
       (run[r].pc = "done" /\ run[r].outcome \in {"returned", "caught"}) =>
          \A i \in 1..Len(run[r].scts) :
             InDirectory(run[r].scts[i]) =>
                \E k \in 1..Len(applied) :
                   applied[k].op = "report" /\ applied[k].run = r /\ applied[k].sct = i

\* The steps of one log's verification that can fail
FailingSteps ==
    {"account", "found", "signedData", "commitment", "serialize", "prismProof",
     "sth", "leaf", "proof", "ctProof"}

\* C3: whatever step of a log's verification fails, a verdict of false and no
\* verdict of true is handed to the store for that log, and it is in the
\* store when the invocation is over.
C3_FailClosed ==
    \A r \in Runs : \A k \in 1..Len(run[r].trace) :
       (run[r].trace[k].e \in FailingSteps /\ ~run[r].trace[k].ok) =>
          /\ \E j \in 1..Len(Submitted) :
                /\ Submitted[j].op = "report" /\ Submitted[j].run = r
                /\ Submitted[j].sct = run[r].trace[k].i /\ ~Submitted[j].valid
                /\ Submitted[j].logName = run[r].trace[k].n
                /\ Submitted[j].domainName = run[r].domain
          /\ \A j \in 1..Len(Submitted) :
                (Submitted[j].op = "report" /\ Submitted[j].run = r
                    /\ Submitted[j].sct = run[r].trace[k].i) => ~Submitted[j].valid
          /\ run[r].pc = "done" =>
                /\ run[r].final # <<>>
                /\ \E j \in 1..Len(run[r].final[1].logVerifications) :
                      run[r].final[1].logVerifications[j] =
                          [name |-> run[r].trace[k].n, valid |-> FALSE]

C3_Witness ==
    \E r \in Runs : \E k \in 1..Len(run[r].trace) :
       /\ Is(r, k, "sth", 2, FALSE)
       /\ run[r].pc = "done"
       /\ VerdictsIn(applied, r) = << [name |-> 1, valid |-> TRUE], [name |-> 2, valid |-> FALSE] >>

\* C4: neither verifier throws; validatePrismProof returns false when the
\* leaf is absent or mismatched, when the computed root differs from the
\* expected one, and when the leaf, a sibling or the root is not hexadecimal;
\* validateCtProof returns false when the root differs and when an entry of
\* the audit path cannot be decoded.
C4_VerifiersReturnFalse ==
    fn.result # <<>> =>
       /\ fn.result[1].ok
       /\ fn.op = "prism" =>
             /\ (fn.kinds.leaf # "ok" \/ fn.kinds.value # "ok" \/ fn.kinds.siblings # "ok"
                    \/ fn.kinds.root # "ok") => ~fn.result[1].val
             /\ (fn.kinds.leaf = "ok" /\ fn.kinds.value = "ok" /\ fn.kinds.siblings = "ok"
                    /\ fn.kinds.root = "ok") => fn.result[1].val
       /\ fn.op = "ct" =>
             /\ (\E i \in 1..Len(fn.proof.audit_path) : fn.proof.audit_path[i] = BadBase64)
                   => ~fn.result[1].val
             /\ (Len(fn.proof.audit_path) = 0 /\ fn.leafHash # fn.expectedRootHash)
                   => ~fn.result[1].val
             /\ (Len(fn.proof.audit_path) > 0 /\ BytesLen(fn.expectedRootHash) # DIGEST_LEN)
                   => ~fn.result[1].val
             /\ (Len(fn.proof.audit_path) > 0 /\ fn.expectedRootHash \in {LeafA, LeafB})
                   => ~fn.result[1].val

C4_Witness ==
    /\ fn.op = "prism"
    /\ fn.kinds = [leaf |-> "ok", siblings |-> "badHex", root |-> "ok", value |-> "ok"]
    /\ fn.result = << Ok(FALSE) >>

\* C5: an account whose signed-data count is not 1 is rejected before any
\* proof is checked: validatePrismProof is not invoked, no audit proof is
\* asked for, and the verdict handed to the store is false.
C5_SignedDataCountRejected ==
    \A r \in Runs : \A k \in 1..Len(run[r].trace) :
       (Is(r, k, "account", run[r].trace[k].i, TRUE) /\ run[r].trace[k].b # <<>>
           /\ Len(run[r].trace[k].b[1].signed_data) # 1) =>
          /\ \A j \in 1..Len(run[r].trace) :
                run[r].trace[j].i = run[r].trace[k].i =>
                   run[r].trace[j].e \notin {"getCommitment", "commitment", "prismProof",
                                             "prismThrew", "sth", "getProof", "proof", "ctProof"}
          /\ \E j \in 1..Len(Submitted) :
                /\ Submitted[j].op = "report" /\ Submitted[j].run = r
                /\ Submitted[j].sct = run[r].trace[k].i /\ ~Submitted[j].valid
          /\ \A j \in 1..Len(Submitted) :
                (Submitted[j].op = "report" /\ Submitted[j].run = r
                    /\ Submitted[j].sct = run[r].trace[k].i) => ~Submitted[j].valid

C5_Witness ==
    \E r \in Runs : \E k \in 1..Len(run[r].trace) :
       /\ Is(r, k, "account", 1, TRUE)
       /\ run[r].trace[k].b # <<>>
       /\ Len(run[r].trace[k].b[1].signed_data) = 2
       /\ run[r].pc = "done"
       /\ run[r].final = << [name |-> run[r].domain,
                             logVerifications |-> << [name |-> run[r].trace[k].n,
                                                      valid |-> FALSE] >>] >>

\* C6: an SCT whose log the directory lacks is skipped: it gets no verdict,
\* nothing is requested for it, and the invocation goes on with the next SCT
\* (or returns after the last).
C6_UnknownLogSkipped ==
    \A r \in Runs : \A i \in 1..Len(run[r].scts) :
       ~InDirectory(run[r].scts[i]) =>
          /\ \A k \in 1..Len(run[r].trace) :
                run[r].trace[k].i = i => run[r].trace[k].e = "skip"
          /\ \A j \in 1..Len(Submitted) :
                Submitted[j].run = r => Submitted[j].sct # i
          /\ \A k \in 1..Len(run[r].trace) :
                Is(r, k, "skip", i, TRUE) =>
                   IF i = Len(run[r].scts)
                   THEN run[r].pc = "done" /\ run[r].outcome = "returned"
                   ELSE \E j \in 1..Len(run[r].trace) :
                           j > k /\ run[r].trace[j].i = i + 1

C6_Witness ==
    \E r \in Runs :
       /\ Len(run[r].scts) = 2
       /\ ~InDirectory(run[r].scts[1])
       /\ \E k \in 1..Len(run[r].trace) : Is(r, k, "skip", 1, TRUE)
       /\ run[r].pc = "done"
       /\ VerdictsIn(applied, r) = << [name |-> 2, valid |-> TRUE] >>

\* Some event before event k of invocation r is event e for the same SCT
\* with outcome true.
Earlier(r, k, e) ==
    \E j \in 1..(k - 1) : Is(r, j, e, run[r].trace[k].i, TRUE)

\* The tree head decoded from the account the sparse proof was checked for
VerifiedSth(r, k) ==
    LET j == CHOOSE j \in 1..(k - 1) : Is(r, j, "prismProof", run[r].trace[k].i, TRUE)
    IN  sthFromBytes(base64ToBytes(run[r].trace[j].b.signed_data[1].data).val).val

\* C7: for each log the account is fetched before the sparse proof is
\* checked; the tree head is decoded, the audit proof requested and the
\* audit proof checked only after the sparse proof was found valid; the audit
\* proof is requested for the tree size, and checked against the root hash,
\* of the tree head decoded from the verified account.
C7_PerLogOrder ==
    \A r \in Runs : \A k \in 1..Len(run[r].trace) :
       LET ev == run[r].trace[k]
       IN  /\ ev.e \in {"prismProof", "prismThrew"} =>
                 Earlier(r, k, "getAccount") /\ Earlier(r, k, "account")
           /\ ev.e = "account" => Earlier(r, k, "getAccount")
           /\ ev.e \in {"sth", "leaf", "getProof", "proof", "ctProof", "ctThrew"} =>
                 Earlier(r, k, "prismProof")
           /\ ev.e = "getProof" =>
                 Earlier(r, k, "sth") /\ ev.b.treeSize = VerifiedSth(r, k).treeSize
           /\ ev.e = "proof" => Earlier(r, k, "getProof")
           /\ ev.e \in {"ctProof", "ctThrew"} => Earlier(r, k, "proof")
           /\ ev.e = "ctProof" => ev.b = VerifiedSth(r, k).rootHash

C7_Witness ==
    \E r \in Runs : \E k \in 1..Len(run[r].trace) :
       /\ Is(r, k, "ctProof", 1, FALSE)
       /\ run[r].trace[k].n = 2
       /\ run[r].trace[k].b = VerifiedSth(r, k).rootHash
       /\ BytesLen(run[r].trace[k].b) = 22

\* C8: two invocations one after the other for the same request, the servers
\* answering the same, record the same verdicts and leave the same sequence
\* of (log, verdict) pairs in the store.
C8_Idempotent ==
    (run[1].pc = "done" /\ run[2].pc = "done" /\ run[1].details = run[2].details) =>
       /\ VerdictsIn(applied, 1) = VerdictsIn(applied, 2)
       /\ run[1].final = run[2].final
       /\ run[1].outcome = run[2].outcome
       /\ run[2].domain \in Domains =>
             Stored(run[2].domain) = VerdictsIn(applied, 2)

C8_Witness ==
    /\ run[1].pc = "done" /\ run[2].pc = "done" /\ run[1].details = run[2].details
    /\ VerdictsIn(applied, 2) = << [name |-> 2, valid |-> TRUE], [name |-> 1, valid |-> FALSE] >>
    /\ Stored(run[2].domain) = VerdictsIn(applied, 1)

\* C9: with an empty audit path validateCtProof returns true exactly when
\* the leaf hash equals the expected root, whatever the leaf index.
C9_EmptyAuditPath ==
    (fn.op = "ct" /\ fn.result # <<>> /\ fn.proof.audit_path = <<>>) =>
       fn.result = << Ok(fn.leafHash = fn.expectedRootHash) >>

C9_Witness ==
    /\ fn.op = "ct" /\ fn.proof.audit_path = <<>> /\ fn.proof.leaf_index = MaxLeafIndex
    /\ fn.leafHash = LeafB /\ fn.expectedRootHash = LeafB
    /\ fn.result = << Ok(TRUE) >>

\* C10: in the tree of two different leaves A and B, whose root is
\* SHA-256(0x01 || A || B), the proof [B] for leaf A is accepted at index 0
\* and rejected at index 1.
C10_TwoLeafTree ==
    (fn.op = "ct" /\ fn.result # <<>> /\ fn.leafHash = LeafA
        /\ fn.expectedRootHash = sha256(concatenateArrays(<< Raw(<< 1 >>), LeafA, LeafB >>))
        /\ fn.proof.audit_path = << bytesToBase64(LeafB) >>) =>
       /\ fn.proof.leaf_index = 0 => fn.result = << Ok(TRUE) >>
       /\ fn.proof.leaf_index = 1 => fn.result = << Ok(FALSE) >>

C10_Witness ==
    /\ fn.op = "ct" /\ fn.leafHash = LeafA /\ LeafA # LeafB
    /\ fn.expectedRootHash = sha256(concatenateArrays(<< Raw(<< 1 >>), LeafA, LeafB >>))
    /\ fn.proof = [leaf_index |-> 1, audit_path |-> << bytesToBase64(LeafB) >>]
    /\ fn.result = << Ok(FALSE) >>

\* ---------------------------------------------------------------- the fold's directions
\* A third specification calls the two verifiers on proofs of up to MaxDepth
\* siblings whose expected root was folded with chosen directions, under every
\* choice of the leading bits of SHA-256(key) and of the leaf index.

MaxDepth == 3

\* The root above a leaf: dirs[i] = 1 puts the sibling of step i on the left.
RECURSIVE TreeRootAbove(_, _, _, _)
TreeRootAbove(hashPrefix, current, siblings, dirs) ==
    IF siblings = <<>> THEN current
    ELSE TreeRootAbove(
             hashPrefix,
             IF Head(dirs) = 1
             THEN sha256(concatenateArrays(<< hashPrefix, Head(siblings), current >>))
             ELSE sha256(concatenateArrays(<< hashPrefix, current, Head(siblings) >>)),
             Tail(siblings), Tail(dirs))

PathSiblings(n) == [i \in 1..n |-> OtherLeaf(7, i)]

\* The sibling list as sent: the tree's own, or one entry shorter or longer
\* at either end.
SiblingsSent(siblings, variant) ==
    CASE variant = "dropLast" -> SubSeq(siblings, 1, Len(siblings) - 1)
      [] variant = "dropFirst" -> SubSeq(siblings, 2, Len(siblings))
      [] variant = "append" -> Append(siblings, sha256(Raw(<< 9 >>)))
      [] variant = "prepend" -> << sha256(Raw(<< 9 >>)) >> \o siblings
      [] OTHER -> siblings

PrismBitCalls ==
    {[op |-> "prism", variant |-> v, dirs |-> d,
      siblings |-> [i \in 1..Len(d) |-> bytesToHex(PathSiblings(Len(d))[i], FALSE)],
      proof |-> [hasLeaf |-> TRUE, leaf |-> bytesToHex(PrismLeaf(1, "honest"), FALSE),
                 siblings |-> [i \in 1..Len(SiblingsSent(PathSiblings(Len(d)), v)) |->
                     bytesToHex(SiblingsSent(PathSiblings(Len(d)), v)[i], FALSE)]],
      key |-> CtLog(1).log_id,
      value |-> prismAccountToBincode(CommittedAccount(1, "honest")).val,
      expectedRootHashHex |->
          bytesToHex(TreeRootAbove(PRISM_INTERNAL_DOMAIN_SEPARATOR, PrismLeaf(1, "honest"),
                                   PathSiblings(Len(d)), d), TRUE),
      result |-> <<>>] :
        d \in SeqsUpTo({0, 1}, MaxDepth),
        v \in {"same", "dropLast", "dropFirst", "append", "prepend"}}

CtBitCalls ==
    {[op |-> "ct", dirs |-> d,
      proof |-> [leaf_index |-> index,
                 audit_path |-> [i \in 1..Len(d) |-> bytesToBase64(PathSiblings(Len(d))[i])]],
      leafHash |-> LeafA,
      expectedRootHash |-> TreeRootAbove(CT_NODE_PREFIX, LeafA, PathSiblings(Len(d)), d),
      result |-> <<>>] :
        d \in SeqsUpTo({0, 1}, MaxDepth), index \in 0..(2 ^ MaxDepth - 1)}

InitBits ==
    /\ \/ /\ fn \in PrismBitCalls
          /\ shaBits \in [{TextEncode(CtLog(1).log_id)} -> [1..MaxDepth -> {0, 1}]]
       \/ /\ fn \in CtBitCalls
          /\ shaBits = KeyBitsOfLogs
    /\ verificationsByDomain = [d \in Domains |-> <<>>]
    /\ queue = <<>>
    /\ applied = <<>>
    /\ ctLogStore = "none"
    /\ accountResp = [n \in KnownLogs |-> "unset"]
    /\ commitmentResp = "unset"
    /\ proofResp = [n \in KnownLogs |-> <<>>]
    /\ asnEmptyParse = "unknown"
    /\ committed = [n \in KnownLogs |-> "honest"]
    /\ run = [r \in Runs |-> IdleRun]

SpecBits == InitBits /\ [][NextProofs]_vars

\* The j-th most significant bit of SHA-256(key), j counted from 0.
KeyHashBit(j) == bytesToBits(sha256(TextEncode(fn.key)))[j + 1]

\* C11: a sparse proof that verifies true for (key, value, root) is rejected,
\* with false and without an exception, for the same key, value and root once
\* its sibling list is one entry shorter or one entry longer.
C11_OneSiblingOff ==
    (fn.op = "prism" /\ fn.result # <<>> /\ fn.variant # "same"
        /\ Len(fn.proof.siblings) # Len(fn.siblings)
        /\ validatePrismProof([fn.proof EXCEPT !.siblings = fn.siblings], fn.key, fn.value,
                              fn.expectedRootHashHex) = Ok(TRUE)) =>
       fn.result = << Ok(FALSE) >>

C11_Witness ==
    /\ fn.op = "prism" /\ fn.variant = "dropLast"
    /\ Len(fn.siblings) = 2 /\ Len(fn.proof.siblings) = 1
    /\ validatePrismProof([fn.proof EXCEPT !.siblings = fn.siblings], fn.key, fn.value,
                          fn.expectedRootHashHex) = Ok(TRUE)
    /\ fn.result = << Ok(FALSE) >>

\* ---------------------------------------------------------------- the codecs alone
\* A fourth specification calls sthFromBytes on every prefix of two encoded
\* tree heads, logEntryBytesForPreCert on certificates and extensions of
\* several lengths, up to one byte past what the length fields can hold,
\* numberToBits on numbers below 2^31 and prismAccountToBincode on account
\* records.

MaxSthBytes == 56

\* The first tree head is 01 00, the 8-byte big-endian 100, the 8-byte
\* big-endian 1000 and 32 bytes 0xFF; the second is log 1's, with a digest as
\* its root and 6 bytes of signature after it; the third has the timestamp
\* 2^40 and the tree size 2^53 + 1, the fourth 2^53 - 1 and 2^64 - 1.
SthCalls ==
    {[op |-> "sth", bytes |-> TakeBytes(whole, len), result |-> <<>>] :
        whole \in {concatenateArrays(<< Raw(<< 1, 0 >>), Raw(BigEndian(100, 8)),
                                        Raw(BigEndian(1000, 8)),
                                        Raw([i \in 1..32 |-> 255]) >>),
                   HonestSthBytes(1),
                   Raw(<< 0, 0 >> \o << 0, 0, 1, 0, 0, 0, 0, 0 >>
                          \o << 0, 32, 0, 0, 0, 0, 0, 1 >> \o [i \in 1..34 |-> i]),
                   Raw(<< 0, 0 >> \o << 0, 31, 255, 255, 255, 255, 255, 255 >>
                          \o [i \in 1..8 |-> 255] \o [i \in 1..32 |-> 0])},
        len \in 0..MaxSthBytes}

LeafCalls ==
    {[op |-> "leaf", certDer |-> [SiteCert(<<>>) EXCEPT !.parses = p, !.tbsLen = tbsLen],
      issuerDer |-> IssuerCert, sct_time |-> t, sct_extensions |-> e, result |-> <<>>] :
        p \in BOOLEAN, tbsLen \in {0, 1, 300, 65536, 2 ^ 24 - 1}, t \in {0, 1000, 2 ^ 30 + 5},
        e \in {<<>>, Raw(<< 7 >>), Raw(<< 1, 2, 3 >>), Blob("ext", Name(0), 1, 256),
               Blob("ext", Name(0), 1, MAX_UINT16), Blob("ext", Name(0), 1, MAX_UINT16 + 1),
               Blob("ext", Name(0), 1, MAX_UINT16 + 300)}}

\* Account records: their keys, payloads and challenges are the base64 text
\* of a few short byte strings.
Accounts ==
    LET text == {<<>>, bytesToBase64(Raw(<< 0 >>)), bytesToBase64(Raw(<< 170, 187 >>))}
        payloads == {[algorithm |-> a, bytes |-> b] :
                        a \in {"ed25519", "secp256k1", "secp256r1"},
                        b \in {bytesToBase64(Raw(<< 0 >>)), bytesToBase64(Raw(<< 170, 187 >>))}}
        ed == [algorithm |-> "ed25519", bytes |-> bytesToBase64(Raw(<< 0 >>))]
    IN  {[id |-> id, nonce |-> nonce, valid_keys |-> keys, signed_data |-> data,
          service_challenge |-> challenge] :
            id \in {CtLog(1).log_id, <<>>}, nonce \in {0, 300},
            keys \in {<<>>, << ed >>, << [ed EXCEPT !.algorithm = "secp256r1"], ed >>},
            data \in {<<>>, << [key |-> ed, data |-> <<>>] >>,
                      << [key |-> ed, data |-> bytesToBase64(Raw(<< 0 >>))],
                         [key |-> [ed EXCEPT !.algorithm = "secp256k1"],
                          data |-> bytesToBase64(Raw(<< 0 >>))] >>},
            challenge \in {<<>>} \cup {<< [Signed |-> c] >> : c \in payloads}
                            \cup {<< [Signed |-> [ed EXCEPT !.bytes = <<>>]] >>}}

InitCodecs ==
    /\ fn \in SthCalls \cup LeafCalls
                \cup {[op |-> "bincode", account |-> account, result |-> <<>>] :
                         account \in Accounts}
                \cup {[op |-> "bits", num |-> num, result |-> <<>>] :
                         num \in {0, 1, 5, 255, 256, 65535, 65536, 2 ^ 24, 2 ^ 30 + 5}}
    /\ shaBits = KeyBitsOfLogs
    /\ verificationsByDomain = [d \in Domains |-> <<>>]
    /\ queue = <<>>
    /\ applied = <<>>
    /\ ctLogStore = "none"
    /\ accountResp = [n \in KnownLogs |-> "unset"]
    /\ commitmentResp = "unset"
    /\ proofResp = [n \in KnownLogs |-> <<>>]
    /\ asnEmptyParse = "unknown"
    /\ committed = [n \in KnownLogs |-> "honest"]
    /\ run = [r \in Runs |-> IdleRun]

CallSthFromBytes ==
    /\ fn.op = "sth"
    /\ fn.result = <<>>
    /\ fn' = [fn EXCEPT !.result = << sthFromBytes(fn.bytes) >>]
    /\ UNCHANGED << shaBits, verificationsByDomain, queue, applied, ctLogStore, accountResp,
                    commitmentResp, proofResp, asnEmptyParse, committed, run >>

CallLogEntryBytesForPreCert ==
    /\ fn.op = "leaf"
    /\ fn.result = <<>>
    /\ fn' = [fn EXCEPT !.result =
                << logEntryBytesForPreCert(fn.certDer, fn.issuerDer, fn.sct_time,
                                           fn.sct_extensions) >>]
    /\ UNCHANGED << shaBits, verificationsByDomain, queue, applied, ctLogStore, accountResp,
                    commitmentResp, proofResp, asnEmptyParse, committed, run >>

CallNumberToBits ==
    /\ fn.op = "bits"
    /\ fn.result = <<>>
    /\ fn' = [fn EXCEPT !.result = << numberToBits(fn.num) >>]
    /\ UNCHANGED << shaBits, verificationsByDomain, queue, applied, ctLogStore, accountResp,
                    commitmentResp, proofResp, asnEmptyParse, committed, run >>

CallPrismAccountToBincode ==
    /\ fn.op = "bincode"
    /\ fn.result = <<>>
    /\ fn' = [fn EXCEPT !.result = << prismAccountToBincode(fn.account) >>]
    /\ UNCHANGED << shaBits, verificationsByDomain, queue, applied, ctLogStore, accountResp,
                    commitmentResp, proofResp, asnEmptyParse, committed, run >>

NextCodecs ==
    \/ CallSthFromBytes
    \/ CallLogEntryBytesForPreCert
    \/ CallNumberToBits
    \/ CallPrismAccountToBincode

SpecCodecs == InitCodecs /\ [][NextCodecs]_vars

\* C12: sthFromBytes fails for every input shorter than 50 bytes and returns
\* no tree head for it, so never one whose root hash has fewer than 32 bytes.
C12_ShortTreeHeadFails ==
    (fn.op = "sth" /\ fn.result # <<>> /\ BytesLen(fn.bytes) < 50) => ~fn.result[1].ok

\* The 50 bytes 01 00, 100 and 1000 as 8-byte big-endian values, 32 bytes 0xFF.
TreeHeadFixture ==
    Raw(<< 1, 0 >> \o BigEndian(100, 8) \o BigEndian(1000, 8) \o [i \in 1..32 |-> 255])

\* C13 (as amended): decoding the 50-byte fixture 01 00, big-endian 100,
\* big-endian 1000, 32 bytes 0xFF yields version 1, signatureType 0,
\* timestamp 100 (bytes 2..9), treeSize 1000 (bytes 10..17) and a root hash
\* of 32 bytes 0xFF.
C13_FixtureDecodes ==
    (fn.op = "sth" /\ fn.result # <<>> /\ fn.bytes = TreeHeadFixture) =>
       fn.result = << Ok([version |-> 1, signatureType |-> 0, timestamp |-> 100,
                          treeSize |-> 1000, rootHash |-> Raw([i \in 1..32 |-> 255])]) >>

C13_Witness ==
    /\ fn.op = "sth" /\ fn.bytes = TreeHeadFixture /\ BytesLen(fn.bytes) = 50
    /\ fn.result # <<>> /\ fn.result[1].ok /\ fn.result[1].val.treeSize = 1000

\* C13 as the specification words it: the same fixture yields timestamp 1000
\* and treeSize 100.
C13_FixtureAsWritten ==
    (fn.op = "sth" /\ fn.result # <<>> /\ fn.bytes = TreeHeadFixture) =>
       fn.result = << Ok([version |-> 1, signatureType |-> 0, timestamp |-> 1000,
                          treeSize |-> 100, rootHash |-> Raw([i \in 1..32 |-> 255])]) >>

\* C14: with extension bytes longer than 65535 logEntryBytesForPreCert fails
\* and returns no leaf bytes.
C14_OversizeExtensionFails ==
    (fn.op = "leaf" /\ fn.result # <<>> /\ BytesLen(fn.sct_extensions) > MAX_UINT16) =>
       ~fn.result[1].ok

\* C16: the bytes returned by logEntryBytesForPreCert are 00 00 00, the
\* 8-byte big-endian timestamp, the entry type 00 01, the 32-byte hash of the
\* issuer's public key, the 3-byte big-endian length of the TBS bytes, the TBS
\* bytes, the 2-byte big-endian length of the extension bytes and the
\* extension bytes: 50 + |TBS| + |extensions| bytes in all, for a TBS shorter
\* than 2^24 bytes and extensions of at most 65535 bytes.
C16_LeafLayout ==
    (fn.op = "leaf" /\ fn.result # <<>> /\ fn.certDer.parses /\ fn.issuerDer.parses) =>
       /\ fn.result[1].ok
       /\ TakeBytes(fn.result[1].val, 3) = Raw(<< 0, 0, 0 >>)
       /\ (fn.certDer.tbsLen < 2 ^ 24 /\ BytesLen(fn.sct_extensions) <= 65535) =>
             LET out == fn.result[1].val
                 n == fn.certDer.tbsLen
                 m == BytesLen(fn.sct_extensions)
             IN  /\ BytesLen(out) = 50 + n + m
                 /\ SliceBytes(out, 3, 11) = Raw(BigEndian(fn.sct_time, 8))
                 /\ SliceBytes(out, 11, 13) = Raw(<< 0, 1 >>)
                 /\ SliceBytes(out, 13, 45)
                       = sha256(Blob("spki", fn.issuerDer.spki, 1, fn.issuerDer.spkiLen))
                 /\ SliceBytes(out, 45, 48)
                       = Raw(<< n \div 65536, (n \div 256) % 256, n % 256 >>)
                 /\ SliceBytes(out, 48, 48 + n) = Blob("tbs", fn.certDer.tbs, 1, n)
                 /\ SliceBytes(out, 48 + n, 50 + n) = Raw(<< m \div 256, m % 256 >>)
                 /\ SliceBytes(out, 50 + n, 50 + n + m) = fn.sct_extensions

C16_Witness ==
    /\ fn.op = "leaf" /\ fn.certDer.parses /\ fn.certDer.tbsLen = 2 ^ 24 - 1
    /\ BytesLen(fn.sct_extensions) = 65535
    /\ fn.result # <<>> /\ fn.result[1].ok
    /\ BytesLen(fn.result[1].val) = 50 + (2 ^ 24 - 1) + 65535

\* ---------------------------------------------------------------- the store's callers
\* A fifth specification has callers submit up to MaxOps operations to the
\* verification store without waiting for one another: fn.submitted lists the
\* operations in the order of the calls, numbered from 1 in their sct field,
\* fn.resumed holds the numbers of those whose caller has gone on after its
\* promise resolved, fn.returned what each read returned, and fn.changed the
\* reads whose caller has changed the object it was given.

MaxOps == 3

InitStore ==
    /\ fn = [submitted |-> <<>>, resumed |-> {}, returned |-> [k \in 1..MaxOps |-> <<>>],
             changed |-> {}]
    /\ shaBits = KeyBitsOfLogs
    /\ verificationsByDomain = [d \in Domains |-> <<>>]
    /\ queue = <<>>
    /\ applied = <<>>
    /\ ctLogStore = "none"
    /\ accountResp = [n \in KnownLogs |-> "unset"]
    /\ commitmentResp = "unset"
    /\ proofResp = [n \in KnownLogs |-> <<>>]
    /\ asnEmptyParse = "unknown"
    /\ committed = [n \in KnownLogs |-> "honest"]
    /\ run = [r \in Runs |-> IdleRun]

\* Caller r calls reportLogVerification, clearVerificationForDomain or
\* verificationForDomain: each hands its operation to enqueue and returns
\* the promise.
Submits(r) ==
    /\ Len(fn.submitted) < MaxOps
    /\ \E d \in Domains :
         \E operation \in
               {StoreOp(r, "report", Len(fn.submitted) + 1, d, CtLog(1).description, v) :
                    v \in BOOLEAN}
                 \cup {StoreOp(r, "clear", Len(fn.submitted) + 1, d, 0, FALSE),
                       StoreOp(r, "read", Len(fn.submitted) + 1, d, 0, FALSE)} :
            /\ queue' = enqueue(operation)
            /\ fn' = [fn EXCEPT !.submitted = Append(@, operation)]
    /\ UNCHANGED << shaBits, verificationsByDomain, applied, ctLogStore, accountResp,
                    commitmentResp, proofResp, asnEmptyParse, committed, run >>

\* The promise enqueue returned for operation k resolves once the operation
\* has run; the caller awaiting it goes on.
Resumes(k) ==
    /\ k \notin fn.resumed
    /\ \E j \in 1..Len(applied) : applied[j].sct = k
    /\ fn' = [fn EXCEPT !.resumed = @ \cup {k}]
    /\ UNCHANGED << shaBits, verificationsByDomain, queue, applied, ctLogStore, accountResp,
                    commitmentResp, proofResp, asnEmptyParse, committed, run >>

\* The queue's next operation runs and its promise resolves with what the
\* operation returned: fn.returned[k] holds the result of read k once it ran.
StoreReturns ==
    /\ queue # <<>>
    /\ StoreStep(Head(queue))
    /\ fn' = IF Head(queue).op # "read" THEN fn
             ELSE [fn EXCEPT !.returned[Head(queue).sct] =
                      << ReadOperation(verificationsByDomain, Head(queue).domainName) >>]
    /\ UNCHANGED << shaBits, ctLogStore, accountResp, commitmentResp, proofResp,
                    asnEmptyParse, committed >>

\* The caller of read k pushes an entry onto the logVerifications of the
\* object it was given; an object shared with the store changes there too.
CallerChanges(k) ==
    /\ k \in fn.resumed \ fn.changed
    /\ fn.returned[k] # <<>> /\ fn.returned[k][1] # <<>>
    /\ \E result \in {fn.returned[k][1][1]} :
          /\ fn' = [fn EXCEPT !.changed = @ \cup {k},
                              !.returned[k] =
                                  << << [result EXCEPT !.value.logVerifications =
                                            Append(@, [name |-> 0, valid |-> TRUE])] >> >>]
          /\ verificationsByDomain' =
                IF result.shared /\ verificationsByDomain[result.value.name] # <<>>
                THEN [verificationsByDomain EXCEPT ![result.value.name] =
                         << [@[1] EXCEPT !.logVerifications =
                                Append(@, [name |-> 0, valid |-> TRUE])] >>]
                ELSE verificationsByDomain
    /\ UNCHANGED << shaBits, queue, applied, ctLogStore, accountResp, commitmentResp,
                    proofResp, asnEmptyParse, committed, run >>

NextStore ==
    \/ \E r \in Runs : Submits(r)
    \/ StoreReturns
    \/ \E k \in 1..MaxOps : Resumes(k)
    \/ \E k \in 1..MaxOps : CallerChanges(k)

SpecStore == InitStore /\ [][NextStore]_vars

\* C17: the store runs the operations one at a time and in the order of
\* their submission, whoever the callers are and however they interleave:
\* what has run is a prefix of what was submitted, the rest waits in the
\* order of submission, one step runs exactly the oldest waiting operation,
\* and a caller goes on only after its own operation has run.
C17_OneAtATimeInOrder ==
    /\ applied \o queue = fn.submitted
    /\ \A k \in 1..Len(applied) : applied[k].sct = k
    /\ \A k \in fn.resumed : k <= Len(applied)

C17_Witness ==
    /\ Len(applied) = 1 /\ Len(queue) = 2
    /\ applied[1].run # queue[1].run /\ queue[1].run # queue[2].run
    /\ applied[1].op = "report" /\ queue[1].op = "clear" /\ queue[2].op = "read"
    /\ fn.resumed = {1}

\* ---------------------------------------------------------------- the handler, every await settling
\* The handler's specification with what its scheduling gives: the event loop
\* runs every continuation that is ready (weak fairness on the steps that
\* follow a settled await), and every fetch is taken to resolve or reject, so
\* that no invocation awaits a response for ever.  The arrival of a request
\* is not forced.
SpecLive ==
    /\ Spec
    /\ WF_vars(\/ StoreRuns
               \/ \E r \in Runs :
                     \/ SecurityInfoResolves(r) \/ LogStoreResolves(r) \/ ParseScts(r)
                     \/ NextSct(r) \/ CatchResolves(r))
    /\ \A r \in Runs : []<>(run[r].pc \notin {"getAccount", "getCommitment", "getProof"})

\* How many events e invocation r has for its SCT i
Count(r, e, i) == Cardinality({k \in 1..Len(run[r].trace) :
                                  run[r].trace[k].e = e /\ run[r].trace[k].i = i})

\* C18: an invocation asks for the account at most once, asks for the audit
\* proof at most once and records at most one verdict for each SCT, and every
\* invocation that has started ends, every await settling.
C18_NoRetryAndTermination ==
    /\ [](\A r \in Runs : \A i \in 1..MaxScts :
             /\ Count(r, "getAccount", i) <= 1
             /\ Count(r, "getProof", i) <= 1
             /\ Count(r, "report", i) <= 1
             /\ Cardinality({k \in 1..Len(applied) :
                    applied[k].run = r /\ applied[k].op = "report" /\ applied[k].sct = i}) <= 1)
    /\ \A r \in Runs : (run[r].pc # "idle") ~> (run[r].pc = "done")

C18_Witness ==
    /\ run[1].pc = "done" /\ run[1].outcome = "returned" /\ Len(run[1].scts) = 2
    /\ \A i \in 1..2 : /\ Count(1, "getAccount", i) = 1
                       /\ Count(1, "getProof", i) = 1
                       /\ Count(1, "report", i) = 1
    /\ Len(applied) = 3

\* Bit k of the leaf index of the call, k counted from the least significant
\* bit, which is bit 0.
IndexBit(k) == (fn.proof.leaf_index \div 2 ^ k) % 2

C20_KeyHashBits ==
    (fn.op = "prism" /\ fn.result # <<>> /\ fn.variant = "same") =>
       /\ fn.result = << Ok(\A i \in 1..Len(fn.dirs) :
                                fn.dirs[i] = KeyHashBit(Len(fn.dirs) - i)) >>
       /\ LET bits == bytesToBits(sha256(TextEncode(fn.key)))
          IN  \A n \in {0, 1, 2, 8, 255, 256} :
                 SliceFrom(Reverse(bits), 256 - n) = [i \in 1..n |-> bits[n - i + 1]]

C20_Witness ==
    /\ fn.op = "prism" /\ fn.variant = "same" /\ fn.dirs = << 0, 1, 1 >>
    /\ KeyHashBit(0) = 1 /\ KeyHashBit(1) = 1 /\ KeyHashBit(2) = 0
    /\ Len(fn.proof.siblings) = 3
    /\ fn.result = << Ok(TRUE) >>

\* C21: numberToBits(n) is the 64 bits of n's 8-byte big-endian
\* representation, most significant bit first: entry k (from 0) is bit 63 - k
\* of n, so numberToBits(5) is 61 zeros followed by 1, 0, 1.  The numbers of
\* the calls are below 2^31, whose bits 31 to 63 are 0.
C21_BigEndianBits ==
    (fn.op = "bits" /\ fn.result # <<>>) =>
       fn.result = << [j \in 1..64 |->
                          IF 64 - j > 30 THEN 0 ELSE (fn.num \div 2 ^ (64 - j)) % 2] >>

\* The unsigned number 8 big-endian bytes stand for, as the model holds
\* numbers: itself below 2^31, its binary digits from the leading 1 otherwise.
ExactUint64(v) ==
    IF SubSeq(v, 1, 4) = << 0, 0, 0, 0 >> /\ v[5] < 128
    THEN v[5] * 2 ^ 24 + v[6] * 65536 + v[7] * 256 + v[8]
    ELSE [double |-> SubSeq(RawBits(v),
                            CHOOSE i \in 1..64 : /\ RawBits(v)[i] = 1
                                                 /\ \A j \in 1..(i - 1) : RawBits(v)[j] = 0,
                            64)]

\* C22: from an input of at least 50 bytes sthFromBytes reads version from
\* byte 0, signatureType from byte 1, timestamp as the big-endian unsigned
\* number of bytes 2..9, treeSize as that of bytes 10..17 and rootHash as the
\* 32 bytes 18..49; the bytes from offset 50 on change nothing.
C22_FixedLayout ==
    (fn.op = "sth" /\ fn.result # <<>> /\ BytesLen(fn.bytes) >= 50) =>
       LET head == TakeBytes(fn.bytes, 18)[1].v
       IN  /\ fn.result[1].ok
           /\ fn.result[1].val.version = head[1]
           /\ fn.result[1].val.signatureType = head[2]
           /\ fn.result[1].val.timestamp = ExactUint64(SubSeq(head, 3, 10))
           /\ fn.result[1].val.treeSize = ExactUint64(SubSeq(head, 11, 18))
           /\ fn.result[1].val.rootHash = DropBytes(TakeBytes(fn.bytes, 50), 18)
           /\ BytesLen(fn.result[1].val.rootHash) = 32
           /\ fn.result[1] = sthFromBytes(TakeBytes(fn.bytes, 50))

\* The fields of an account record as C23 lays them out.
LengthPrefixed(bytes) == concatenateArrays(<< Raw(LittleEndian(BytesLen(bytes), 8)), bytes >>)

EncodedKey(key) ==
    concatenateArrays(
        << Raw(LittleEndian(CASE key.algorithm = "ed25519" -> 0
                              [] key.algorithm = "secp256k1" -> 1
                              [] key.algorithm = "secp256r1" -> 2, 4)),
           LengthPrefixed(base64ToBytes(key.bytes).val) >>)

\* C23: prismAccountToBincode emits, in this order and with nothing else, the
\* id as 8-byte little-endian length and UTF-8 bytes, the nonce in 8 bytes
\* little-endian, the count of valid keys in 8 bytes little-endian and each
\* key as a 4-byte little-endian algorithm tag and length-prefixed bytes, the
\* count of signed-data entries in 8 bytes little-endian and each entry as its
\* key and its length-prefixed payload, and the service challenge: one zero
\* byte when absent, its length-prefixed bytes alone when present.
C23_AccountLayout ==
    (fn.op = "bincode" /\ fn.result # <<>>) =>
       LET a == fn.account
       IN  fn.result =
             << Ok(concatenateArrays(
                   << LengthPrefixed(TextEncode(a.id)),
                      Raw(LittleEndian(a.nonce, 8)),
                      Raw(LittleEndian(Len(a.valid_keys), 8)),
                      concatenateArrays([i \in 1..Len(a.valid_keys) |->
                                            EncodedKey(a.valid_keys[i])]),
                      Raw(LittleEndian(Len(a.signed_data), 8)),
                      concatenateArrays(
                          [i \in 1..Len(a.signed_data) |->
                              concatenateArrays(
                                  << EncodedKey(a.signed_data[i].key),
                                     LengthPrefixed(
                                         base64ToBytes(a.signed_data[i].data).val) >>)]),
                      IF a.service_challenge = <<>> THEN Raw(<< 0 >>)
                      ELSE LengthPrefixed(
                               base64ToBytes(a.service_challenge[1].Signed.bytes).val) >>)) >>

C23_Witness ==
    /\ fn.op = "bincode" /\ fn.result # <<>> /\ fn.result[1].ok
    /\ Len(fn.account.valid_keys) = 2 /\ Len(fn.account.signed_data) = 2
    /\ fn.account.service_challenge # <<>> /\ fn.account.nonce = 300
    /\ fn.account.service_challenge[1].Signed.bytes # <<>>
    /\ BytesLen(fn.result[1].val)
          = (8 + StrLen(fn.account.id)) + 8 + (8 + 2 * 13) + (8 + 2 * 22) + (8 + 1)

\* C26: prismAccountToBincode is injective on account records: an account
\* that differs from the serialized one in any field, the service
\* challenge's algorithm included, never has the same bytes.
C26_Injective ==
    (fn.op = "bincode" /\ fn.result # <<>>) =>
       \A other \in Accounts :
          other # fn.account => << prismAccountToBincode(other) >> # fn.result

\* C24: validateCtProof accepts every honest inclusion proof of an
\* append-only CT Merkle tree: for every tree of N >= 1 leaves, N not a power
\* of two included, and every leaf index m < N, the call with leaf m's hash,
\* index m, the tree's audit path for m and the tree's root returns true.
C24_HonestProofAccepted ==
    (/\ fn.op = "ct" /\ "leaves" \in DOMAIN fn /\ fn.result # <<>>
     /\ fn.proof.leaf_index < fn.leaves) =>
       fn.result = << Ok(TRUE) >>

\* ---------------------------------------------------------------- overlapping invocations
\* The browser calls the listener for a request while an earlier call is
\* still awaiting: here two invocations for the same origin run with their
\* steps interleaved in every order.  The servers answer honestly or the
\* audit proof fails; the requests carry a certificate with one or two SCTs.

InitOverlap ==
    /\ shaBits = KeyBitsOfLogs
    /\ verificationsByDomain = [d \in Domains |-> <<>>]
    /\ queue = <<>>
    /\ applied = <<>>
    /\ ctLogStore = "none"
    /\ accountResp = [n \in KnownLogs |-> "ok"]
    /\ commitmentResp = "ok"
    /\ proofResp = [n \in KnownLogs |-> <<>>]
    /\ asnEmptyParse = "unknown"
    /\ committed = [n \in KnownLogs |-> "honest"]
    /\ run = [r \in Runs |-> IdleRun]
    /\ fn = <<>>

\* The listener is called for a request as soon as its headers arrive,
\* whatever the earlier invocations are doing.
StartOverlapping(r) ==
    /\ run[r].pc = "idle"
    /\ \A q \in Runs : q < r => run[q].pc # "idle"
    /\ \E logs \in {<< 1 >>, << 1, 2 >>} :
          run' = [run EXCEPT ![r] =
                    [@ EXCEPT !.pc = "securityInfo",
                              !.details = << Request(UrlA, "secure",
                                                     << SiteCert(logs), IssuerCert >>) >>,
                              !.domain = Origin(UrlA)]]
    /\ UNCHANGED << shaBits, verificationsByDomain, queue, applied, ctLogStore,
                    accountResp, commitmentResp, proofResp, asnEmptyParse, committed, fn >>

NextOverlap ==
    \/ \E r \in Runs : StartOverlapping(r)
    \/ \E r \in Runs : SecurityInfoResolves(r)
    \/ \E r \in Runs : LogStoreResolves(r)
    \/ StoreRuns
    \/ \E r \in Runs : ParseScts(r)
    \/ \E r \in Runs : NextSct(r)
    \/ \E r \in Runs : CatchResolves(r)
    \/ \E r \in Runs : AccountResponds(r)
    \/ \E r \in Runs : CommitmentResponds(r)
    \/ \E r \in Runs : ProofResponds(r)

SpecOverlap == InitOverlap /\ [][NextOverlap]_vars

\* C25: when two verification runs for the same domain overlap, after both
\* have completed the store's record for the domain holds the verdicts of
\* exactly one run: each log appears at most once, and no verdict of the
\* earlier-started run stands next to those of the later one.
C25_OneRunsVerdicts ==
    (/\ \A r \in Runs : run[r].pc = "done" /\ run[r].outcome \in {"returned", "caught"}
     /\ run[1].domain = run[2].domain) =>
       /\ \E r \in Runs : Stored(run[1].domain) = VerdictsIn(applied, r)
       /\ \A i, j \in 1..Len(Stored(run[1].domain)) :
             Stored(run[1].domain)[i].name = Stored(run[1].domain)[j].name => i = j

\* C27: when the handler cannot verify a request at all (the URL is the
\* log-list URL, the connection state is neither secure nor weak, or fewer
\* than two certificates are present), it leaves the verification store
\* unchanged: the invocation hands the store no operation, so the domain's
\* earlier verdicts stay and none is added, and it sends no request to the
\* commitment service or a log server.
C27_UnverifiableLeavesStore ==
    \A r \in Runs :
       (/\ run[r].details # <<>>
        /\ \/ run[r].details[1].url = LOG_LIST_URL
           \/ run[r].details[1].state \notin {"secure", "weak"}
           \/ Len(run[r].details[1].certificates) < 2) =>
          /\ \A k \in 1..Len(Submitted) : Submitted[k].run # r
          /\ run[r].trace = <<>>
          /\ run[r].pc = "done" => run[r].outcome = "ignored"
          /\ r = 2 => /\ queue = <<>>
                      /\ verificationsByDomain[run[1].domain] = run[1].final
                      /\ \A d \in Domains \ {run[1].domain} : verificationsByDomain[d] = <<>>

C27_Witness ==
    /\ run[2].pc = "done" /\ run[2].outcome = "ignored"
    /\ run[2].details[1].state = "insecure" /\ Len(run[2].details[1].certificates) = 2
    /\ run[2].domain = run[1].domain
    /\ Len(Stored(run[1].domain)) = 2
    /\ Stored(run[1].domain)[1].valid

\* The reports for domain d among ops since the last clear of d, in order
RECURSIVE ReportsSinceClear(_, _)
ReportsSinceClear(ops, d) ==
    IF ops = <<>> THEN <<>>
    ELSE LET last == ops[Len(ops)]
             before == SubSeq(ops, 1, Len(ops) - 1)
         IN  IF last.domainName = d /\ last.op = "clear" THEN <<>>
             ELSE IF last.domainName = d /\ last.op = "report"
                  THEN Append(ReportsSinceClear(before, d),
                              [name |-> last.logName, valid |-> last.valid])
             ELSE ReportsSinceClear(before, d)

\* C28: store mutations touch only the named domain:
\* reportLogVerification(d, l, v) appends exactly one record (l, v) at the
\* end of d's list, keeping d's earlier records and their order and leaving
\* every other domain unchanged; clearVerificationForDomain(d) removes d's
\* record and leaves every other domain unchanged; after any sequence of
\* operations d's list equals the reports for d submitted since the last
\* clear of d, in submission order.
C28_OnlyNamedDomain ==
    /\ [](\A d \in Domains :
             /\ Stored(d) = ReportsSinceClear(applied, d)
             /\ verificationsByDomain[d] # <<>> =>
                   /\ verificationsByDomain[d][1].name = d
                   /\ Stored(d) # <<>>)
    /\ [][applied' # applied =>
             \E operation \in {applied'[Len(applied')]} :
                /\ \A d \in Domains \ {operation.domainName} :
                      verificationsByDomain'[d] = verificationsByDomain[d]
                /\ operation.op = "report" =>
                      Stored(operation.domainName)'
                         = Stored(operation.domainName)
                              \o << [name |-> operation.logName, valid |-> operation.valid] >>
                /\ operation.op = "clear" =>
                      verificationsByDomain'[operation.domainName] = <<>>]_vars

C28_Witness ==
    /\ Len(applied) = 3
    /\ applied[1].op = "report" /\ applied[1].valid
    /\ applied[2].op = "report" /\ ~applied[2].valid
    /\ applied[1].domainName # applied[2].domainName
    /\ applied[3].op = "clear" /\ applied[3].domainName = applied[2].domainName
    /\ Len(Stored(applied[1].domainName)) = 1
    /\ verificationsByDomain[applied[2].domainName] = <<>>

\* What the caller of read k finds in the object it was given
ResultSeen(k) ==
    LET result == fn.returned[k][1][1]
    IN  IF result.shared /\ verificationsByDomain[result.value.name] # <<>>
        THEN verificationsByDomain[result.value.name][1]
        ELSE result.value

\* C29: verificationForDomain is a read-only snapshot: it leaves the store
\* unchanged, returns undefined for a domain with no record, and otherwise
\* returns a copy: what a read returned stays the domain's record as it was
\* when the read ran, whatever reports and clears run later, and a change
\* the caller makes to a returned result never alters the store.
C29_ReadOnlySnapshot ==
    /\ [](/\ \A k \in 1..Len(applied) :
                applied[k].op = "read" =>
                   \E then \in {ReportsSinceClear(SubSeq(applied, 1, k - 1),
                                                  applied[k].domainName)} :
                      /\ fn.returned[applied[k].sct] # <<>>
                      /\ then = <<>> <=> fn.returned[applied[k].sct][1] = <<>>
                      /\ then # <<>> =>
                            ResultSeen(applied[k].sct)
                               = [name |-> applied[k].domainName,
                                  logVerifications |->
                                      IF applied[k].sct \in fn.changed
                                      THEN Append(then, [name |-> 0, valid |-> TRUE])
                                      ELSE then]
          /\ \A d \in Domains :
                Stored(d) = ReportsSinceClear(applied, d))
    /\ [][(\/ applied' # applied /\ applied'[Len(applied')].op = "read"
           \/ fn'.changed # fn.changed)
             => verificationsByDomain' = verificationsByDomain]_vars

C29_Witness ==
    /\ Len(applied) = 3
    /\ applied[1].op = "report" /\ applied[2].op = "read" /\ applied[3].op = "report"
    /\ applied[1].domainName = applied[2].domainName
    /\ applied[3].domainName = applied[2].domainName
    /\ 2 \in fn.changed
    /\ Len(Stored(applied[2].domainName)) = 2
    /\ fn.returned[2][1][1].value.logVerifications
          = << Stored(applied[2].domainName)[1], [name |-> 0, valid |-> TRUE] >>

====
